---- MODULE Spec2Model ----
(***************************************************************************)
(* EMITY System: the risk engine (src/risk_engine.py) as a state machine.  *)
(*                                                                         *)
(* The engine is stateless apart from its configuration: every public      *)
(* operation is one action that records the call and the value returned.   *)
(*                                                                         *)
(* Number representation (Python floats are taken as exact decimals):      *)
(*   money                      integer cents                              *)
(*   position percentages       integer thousandths of a percent (mpct)    *)
(*   simulation percentages     integer hundredths of a percent (cpct),    *)
(*                              the analyzer rounds them to 2 decimals     *)
(*   apr_7d                     integer percent                            *)
(*   gas_multiplier             integer tenths                             *)
(*   stop_loss, synced pct      integer hundredths of a percent (cpct)     *)
(*   market_score (reported)    integer tenths of a score point            *)
(* and in the analyzer (src/analyzer.py):                                  *)
(*   current_price              integer hundredths                         *)
(*   volatility                 integer tenths of a percent                *)
(*   range multipliers          integer hundred-thousandths                *)
(*   min_price, max_price       price times multiplier, in units of 10^-7  *)
(*   spread_percent             integer thousandths of a percent           *)
(*   probabilities              integer hundredths                         *)
(*   time_in_range (reported)   integer tenths of a percent                *)
(*   tvl, volume                integer USD; fee_apr, il_7d integer percent *)
(* A Python value that may be missing (None, absent key) is <<>> when      *)
(* missing and <<v>> when present.                                         *)
(***************************************************************************)
EXTENDS Integers, Sequences, FiniteSets, TLC

VARIABLES
    config,     \* the user configuration the engine is constructed from
    pools,      \* the list of pool rows handed to the engine
    call,       \* the last operation invoked and its arguments
    ret,        \* the value that operation returned
    now,            \* the worker's clock, in whole hours
    alert_history,  \* EMITYWorker.alert_history: pool id -> time of its last alert
    telegram,       \* the messages the Telegram API accepted, oldest first
    alerts          \* the rows of the alerts table, oldest first

worker_vars == <<now, alert_history, telegram, alerts>>

vars == <<config, pools, call, ret, now, alert_history, telegram, alerts>>

----------------------------------------------------------------------------
(* Bounds of the model *)

MaxPools == 3
MaxRun == 10
MaxRawPools == 2
MaxGreedyPools == 4
MaxGraphPools == 50
MaxGeckoPools == 30
MaxScans == 2
MaxWorkerPools == 2
MaxHours == 6
MaxTelegrams == 2
MaxAlertRows == 2

----------------------------------------------------------------------------
(* Optional values and arithmetic helpers *)

None == <<>>
Some(v) == <<v>>

Min2(a, b) == IF a <= b THEN a ELSE b
Abs(a) == IF a < 0 THEN -a ELSE a

\* floor(a * p / 100000) for a >= 0, 0 <= p, computed without leaving the
\* 32-bit range: a = q*10^5 + r, p = p1*10^3 + p0.
FloorPct(a, p) ==
    LET q == a \div 100000
        r == a % 100000
        p1 == p \div 1000
        p0 == p % 1000
    IN  q * p + ((r * p1 + ((r * p0) \div 1000)) \div 100)

\* Decimal(str(capital * (pct / 100))).quantize(0.01, ROUND_DOWN):
\* ROUND_DOWN truncates toward zero.
QuantizeDown(capital, pct) ==
    IF pct >= 0 THEN FloorPct(capital, pct) ELSE -FloorPct(capital, -pct)

\* round(x, 2) on a percentage held in thousandths: nearest hundredth,
\* ties to even; the result is again in thousandths.
Round2(p) ==
    LET a == Abs(p)
        lo == a \div 10
        rem == a % 10
        up == IF rem > 5 \/ (rem = 5 /\ lo % 2 = 1) THEN lo + 1 ELSE lo
    IN  IF p >= 0 THEN up * 10 ELSE -(up * 10)

\* round(num / den, 1) in tenths, for num >= 0, den > 0: nearest tenth, ties
\* to even.
Round1(num, den) ==
    LET lo == (10 * num) \div den
        rem2 == 2 * ((10 * num) % den)
    IN  IF rem2 > den \/ (rem2 = den /\ lo % 2 = 1) THEN lo + 1 ELSE lo

\* f"{num/den:.0f}": nearest integer, ties to even.
Round0(num, den) ==
    LET lo == num \div den
        rem2 == 2 * (num % den)
    IN  IF rem2 > den \/ (rem2 = den /\ lo % 2 = 1) THEN lo + 1 ELSE lo

----------------------------------------------------------------------------
(* Constants of RiskEngine *)

GAS_COST_USD == 5
GAS_WARNING_THRESHOLD == 10

RISK_PROFILES ==
    [conservador |-> [max_position_pct |-> 20000, min_score |-> 70,
                      max_il_tolerance |-> 500, range_type |-> "defensivo"],
     moderado    |-> [max_position_pct |-> 30000, min_score |-> 60,
                      max_il_tolerance |-> 1000, range_type |-> "otimizado"],
     agressivo   |-> [max_position_pct |-> 40000, min_score |-> 50,
                      max_il_tolerance |-> 1500, range_type |-> "agressivo"]]

\* RiskEngine.__init__: the limits of the configured profile.
profile_limits(cfg) ==
    IF cfg.perfil_risco \in DOMAIN RISK_PROFILES
    THEN RISK_PROFILES[cfg.perfil_risco]
    ELSE RISK_PROFILES["conservador"]

----------------------------------------------------------------------------
(* Dictionaries of simulation figures *)

\* A dict of 7-day figures; a missing key is None.
EmptyDict ==
    [net_return |-> None, net_after_gas |-> None, time_in_range |-> None,
     il_percentage |-> None, impermanent_loss |-> None]

\* dict.get(key, default) for a numeric key, followed by float().
Get(opt, default) == IF opt = None THEN default ELSE opt[1]

StrategyKeys == <<"defensive", "optimized", "aggressive">>

\* json.loads(blob): the parsed dict of a JSON text, None when it raises.
json_loads(blob) == IF blob.kind = "json" THEN Some(blob.sims) ELSE None

\* The loop of _extract_simulation_7d over the strategies: best is None or
\* <<[net |-> best net_after_gas, data |-> its 7d dict]>>.
RECURSIVE BestStrategy(_, _, _)
BestStrategy(sims, i, best) ==
    IF i > Len(StrategyKeys) THEN best
    ELSE LET strat == sims[StrategyKeys[i]]
             data_7d == Get(strat, EmptyDict)
             net_after == IF data_7d.net_after_gas # None
                          THEN data_7d.net_after_gas
                          ELSE data_7d.net_return
         IN  IF net_after = None
             THEN BestStrategy(sims, i + 1, best)
             ELSE IF best = None \/ net_after[1] > best[1].net
                  THEN BestStrategy(sims, i + 1,
                                    Some([net |-> net_after[1], data |-> data_7d]))
                  ELSE BestStrategy(sims, i + 1, best)

\* Line 90: pool_data.get('simulations') or pool_data.get('simulations_data').
sims_blob_of(pool_data) ==
    IF pool_data.simulations # None THEN pool_data.simulations
    ELSE pool_data.simulations_data

\* Lines 91-97: a text is parsed, anything else is taken as it is.
sims_of(sims_blob) ==
    IF sims_blob = None THEN None
    ELSE IF sims_blob[1].kind = "dict" THEN Some(sims_blob[1].sims)
    ELSE json_loads(sims_blob[1])

\* Lines 99-120: the best strategy of a parsed dict.
best_of(sims) == IF sims = None THEN None ELSE BestStrategy(sims[1], 1, None)

\* Lines 122-151: the consolidated dict of the best strategy, {} without one.
consolidated(best) ==
    IF best = None THEN EmptyDict
    ELSE [net_return |-> Some(Get(best[1].data.net_return, best[1].net)),
          net_after_gas |-> Some(best[1].net),
          time_in_range |-> Some(Get(best[1].data.time_in_range, 0)),
          il_percentage |-> Some(Get(best[1].data.impermanent_loss, 0)),
          impermanent_loss |-> None]

_extract_simulation_7d(pool_data) ==
    IF pool_data.simulation_7d # None THEN pool_data.simulation_7d[1]
    ELSE IF pool_data.sim_7d # None THEN pool_data.sim_7d[1]
    ELSE consolidated(best_of(sims_of(sims_blob_of(pool_data))))

_get_pool_address(pool) ==
    IF pool.pool_address # None THEN pool.pool_address ELSE pool.address

_get_pair_label(pool) ==
    IF pool.pair # None THEN pool.pair
    ELSE <<Get(pool.token0_symbol, "TOKEN0"), Get(pool.token1_symbol, "TOKEN1")>>

----------------------------------------------------------------------------
(* Amounts in USD as exact fractions *)

Usd(n, d) == [num |-> n, den |-> d]
UsdLess(a, b) == a.num * b.den < b.num * a.den

----------------------------------------------------------------------------
(* validate_gas_cost *)

\* Lines 204-213: the return estimated from the simulation, position_size
\* (cents) times net percent (cpct) in units of 10^-6 USD; 0.0 without one.
net_pct_of(sim_7d) ==
    IF sim_7d.net_after_gas # None THEN sim_7d.net_after_gas ELSE sim_7d.net_return

sim_estimate(position_size, sim_7d) ==
    IF sim_7d # EmptyDict
    THEN Usd(position_size * Get(net_pct_of(sim_7d), 0), 1000000)
    ELSE Usd(0, 1)

sim_return_usd(position_size, pool_data) ==
    sim_estimate(position_size, _extract_simulation_7d(pool_data))

\* Line 216: the condition under which the APR estimate replaces the
\* simulation estimate.
use_apr_estimate(sim_est, pool_data) ==
    sim_est.num <= 0 /\ pool_data.apr_7d \notin {None, Some(0)}

\* Lines 200-221: estimated_return_usd.
apr_or_sim_estimate(sim_est, position_size, pool_data) ==
    IF use_apr_estimate(sim_est, pool_data)
    THEN Usd(position_size * pool_data.apr_7d[1] * 7, 3650000)
    ELSE sim_est

estimated_return_usd(position_size, pool_data) ==
    apr_or_sim_estimate(sim_return_usd(position_size, pool_data), position_size, pool_data)

\* Line 226: GAS_COST_USD * gas_multiplier (tenths), reduced by 5.
min_return_needed(cfg) == Usd((GAS_COST_USD * cfg.gas_multiplier) \div 5, 2)

Reason(kind, args) == [kind |-> kind, args |-> args]

\* Line 236: gas_pct > GAS_WARNING_THRESHOLD * 100, with
\* gas_pct = GAS_COST_USD / est * 100 (100 when est <= 0), that is
\* est < GAS_COST_USD * 100 / 10.
gas_high(est) ==
    est.num <= 0 \/ UsdLess(est, Usd((GAS_COST_USD * 100) \div GAS_WARNING_THRESHOLD, 1))

\* Lines 223-243: the two rules on the estimate.
gas_rules(cfg, est) ==
    IF UsdLess(est, min_return_needed(cfg))
    THEN [viable |-> FALSE,
          reason |-> Some(Reason("Retorno estimado < gas x multiplier",
                                 <<cfg.gas_multiplier>>)),
          warnings |-> <<>>]
    ELSE [viable |-> TRUE,
          reason |-> None,
          warnings |-> IF gas_high(est)
                       THEN <<"Gas representa mais de 10% do retorno esperado">>
                       ELSE <<>>]

validate_gas_cost(cfg, position_size, pool_data) ==
    gas_rules(cfg, estimated_return_usd(position_size, pool_data))

----------------------------------------------------------------------------
(* calculate_position_size *)

\* Variant: the gate reads the profile's min_score instead of the configured one.
MutBelowProfileMinScore(cfg, score) == score < profile_limits(cfg).min_score

\* Line 162: the score gate.
below_min_score(cfg, score) == score < cfg.min_score

\* Line 172: `if override_pct:` is Python truthiness, false for None and 0.
override_given(override_pct) == override_pct # None /\ override_pct[1] # 0

\* Lines 176-177: score 60 -> 10%, score 100 -> the profile maximum, linear
\* in between and beyond (the quotient is exact: the profile maxima minus 10
\* are multiples of 40 thousandths).
score_interpolation(cfg, score) ==
    10000 + ((profile_limits(cfg).max_position_pct - 10000) * (score - 60)) \div 40

\* Lines 172-177.
base_pct(cfg, score, override_pct) ==
    IF override_given(override_pct)
    THEN Min2(override_pct[1], cfg.max_position_size)
    ELSE score_interpolation(cfg, score)

\* Variant: the configured max_position_size is left out of the minimum.
MutLimitWithoutConfigCap(cfg, base) == Min2(base, profile_limits(cfg).max_position_pct)

\* Line 180.
limit_size_pct(cfg, base) ==
    Min2(Min2(base, cfg.max_position_size), profile_limits(cfg).max_position_pct)

\* Lines 188-195: the decision returned for a sized position.
sized_decision(size_pct, size_usdt, gas_check) ==
    [can_operate |-> gas_check.viable,
     reason |-> Get(gas_check.reason, Reason("OK", <<>>)),
     size_pct |-> Round2(size_pct),
     size_usdt |-> size_usdt,
     gas_cost |-> Some(GAS_COST_USD),
     warnings |-> gas_check.warnings]

\* Lines 186-195: the gas check on the quantized size.
gas_checked(cfg, pool_data, size_pct, size_usdt) ==
    sized_decision(size_pct, size_usdt, validate_gas_cost(cfg, size_usdt, pool_data))

\* Lines 181-195.
size_position(cfg, pool_data, size_pct) ==
    gas_checked(cfg, pool_data, size_pct, QuantizeDown(cfg.capital_total, size_pct))

calculate_position_size(cfg, pool_data, override_pct) ==
    IF below_min_score(cfg, pool_data.score)
    THEN [can_operate |-> FALSE,
          reason |-> Reason("Score abaixo do minimo", <<pool_data.score, cfg.min_score>>),
          size_pct |-> 0,
          size_usdt |-> 0,
          gas_cost |-> None,
          warnings |-> <<>>]
    ELSE size_position(cfg, pool_data,
                       limit_size_pct(cfg, base_pct(cfg, pool_data.score, override_pct)))

----------------------------------------------------------------------------
(* check_market_conditions *)

\* Lines 269-279: the IL and net figures read from the extracted dict.
il_pct_of(sim_7d) ==
    Abs(Get(IF sim_7d.il_percentage # None THEN sim_7d.il_percentage
            ELSE sim_7d.impermanent_loss, 0))

net_return_of(sim_7d) ==
    Get(IF sim_7d.net_after_gas # None THEN sim_7d.net_after_gas
        ELSE sim_7d.net_return, 0)

\* Variant: a pool qualifies without the test on its net return.
MutQualifiesWithoutNetTest(cfg, pool) ==
    LET sim_7d == _extract_simulation_7d(pool)
    IN  /\ pool.score >= cfg.min_score
        /\ sim_7d # EmptyDict
        /\ il_pct_of(sim_7d) <= profile_limits(cfg).max_il_tolerance

\* Lines 268 and 282: the conditions under which a pool is appended to
\* good_pools.
meets_criteria(cfg, score, sim_7d) ==
    /\ score >= cfg.min_score
    /\ sim_7d # EmptyDict
    /\ il_pct_of(sim_7d) <= profile_limits(cfg).max_il_tolerance
    /\ net_return_of(sim_7d) > 0

pool_qualifies(cfg, pool) == meets_criteria(cfg, pool.score, _extract_simulation_7d(pool))

\* Lines 283-289.
entry_of(pool, sim_7d) ==
    [pool_address |-> _get_pool_address(pool),
     pair |-> _get_pair_label(pool),
     score |-> pool.score,
     net_return |-> net_return_of(sim_7d),
     il_percentage |-> il_pct_of(sim_7d)]

good_pool_entry(pool) == entry_of(pool, _extract_simulation_7d(pool))

\* Line 290: what a good pool adds to total_score.
score_contribution(pool) == pool.score

\* Lines 263-290: the loop; acc = [good_pools, total_score].
RECURSIVE market_loop(_, _, _, _)
market_loop(cfg, pool_list, i, acc) ==
    IF i > Len(pool_list) THEN acc
    ELSE IF pool_qualifies(cfg, pool_list[i])
         THEN market_loop(cfg, pool_list, i + 1,
                  [good_pools |-> Append(acc.good_pools, good_pool_entry(pool_list[i])),
                   total_score |-> acc.total_score + score_contribution(pool_list[i])])
         ELSE market_loop(cfg, pool_list, i + 1, acc)

\* Variant: the gate needs a market score strictly above 50.
MutGateStrictlyAbove(n_good, total_score, n) == n_good > 0 /\ total_score > 50 * n

\* Line 296, on market_score = total_score / n.
gate_open(n_good, total_score, n) == n_good > 0 /\ total_score >= 50 * n

\* Variant: good_pools is returned without the slice.
MutNoTruncation(cfg, good_pools) == good_pools

\* Line 316: good_pools[:max_positions].
truncate_good_pools(cfg, good_pools) ==
    SubSeq(good_pools, 1, Min2(Len(good_pools), cfg.max_positions))

\* Lines 298-310: the reason of the decision.
market_reason(can_operate, n_good, total_score, n) ==
    IF ~can_operate
    THEN IF total_score < 50 * n
         THEN Reason("Mercado desfavoravel (score medio)", <<Round0(total_score, n)>>)
         ELSE IF n_good = 0
              THEN Reason("Nenhuma pool atende aos criterios de risco", <<>>)
              ELSE Reason("Condicoes incertas", <<>>)
    ELSE Reason("pools viaveis encontradas", <<n_good>>)

\* Lines 298-310: the recommendation of the decision.
market_recommendation(cfg, can_operate, n_good, total_score, n) ==
    IF ~can_operate
    THEN IF total_score < 50 * n
         THEN Reason("NAO OPERAR HOJE - Aguardar melhores condicoes", <<>>)
         ELSE IF n_good = 0
              THEN Reason("Ajustar perfil de risco ou aguardar", <<>>)
              ELSE Reason("Operar com cautela reduzida", <<>>)
    ELSE Reason("Operar nas melhores pools", <<Min2(n_good, cfg.max_positions)>>)

\* Lines 312-319: the dict returned after the loop.
market_decision(cfg, can_operate, good_pools, total_score, n) ==
    [can_operate |-> can_operate,
     reason |-> market_reason(can_operate, Len(good_pools), total_score, n),
     recommendation |-> market_recommendation(cfg, can_operate, Len(good_pools),
                                              total_score, n),
     good_pools |-> truncate_good_pools(cfg, good_pools),
     market_score |-> Round1(total_score, n),
     total_opportunities |-> Some(Len(good_pools))]

\* Lines 292-319: the gate on the outcome of the loop.
market_gate(cfg, good_pools, total_score, n) ==
    market_decision(cfg, gate_open(Len(good_pools), total_score, n),
                    good_pools, total_score, n)

\* Lines 292-319.
after_market_loop(cfg, acc, n) == market_gate(cfg, acc.good_pools, acc.total_score, n)

\* Variant: the empty list is reported as a market that can be operated.
MutEmptyListOperates(cfg, pool_list) ==
    IF pool_list = <<>>
    THEN [can_operate |-> TRUE,
          reason |-> Reason("Nenhuma pool disponivel para analise", <<>>),
          recommendation |-> Reason("Aguardar scanner coletar dados", <<>>),
          good_pools |-> <<>>,
          market_score |-> 0,
          total_opportunities |-> None]
    ELSE after_market_loop(cfg,
             market_loop(cfg, pool_list, 1, [good_pools |-> <<>>, total_score |-> 0]),
             Len(pool_list))

check_market_conditions(cfg, pool_list) ==
    IF pool_list = <<>>
    THEN [can_operate |-> FALSE,
          reason |-> Reason("Nenhuma pool disponivel para analise", <<>>),
          recommendation |-> Reason("Aguardar scanner coletar dados", <<>>),
          good_pools |-> <<>>,
          market_score |-> 0,
          total_opportunities |-> None]
    ELSE after_market_loop(cfg,
             market_loop(cfg, pool_list, 1, [good_pools |-> <<>>, total_score |-> 0]),
             Len(pool_list))

----------------------------------------------------------------------------
(* calculate_portfolio_allocation *)

\* A good_pools entry used as pool data: the default of next() on line 345.
entry_as_pool(entry) ==
    [pool_address |-> entry.pool_address, address |-> None, pair |-> entry.pair,
     token0_symbol |-> None, token1_symbol |-> None, score |-> entry.score,
     simulation_7d |-> None, sim_7d |-> None, simulations |-> None,
     simulations_data |-> None, apr_7d |-> None]

\* Lines 343-346: the first input pool with the entry's address.
full_pool_of(pool_list, entry) ==
    LET hits == {i \in 1..Len(pool_list) :
                    _get_pool_address(pool_list[i]) = entry.pool_address}
    IN  IF hits = {} THEN entry_as_pool(entry)
        ELSE pool_list[CHOOSE i \in hits : \A j \in hits : i <= j]

\* Variant: a viable position is accepted whatever capital remains.
MutAcceptsWithoutCapitalTest(position, remaining_capital) == position.can_operate

\* Line 351: the acceptance test.
accepts(position, remaining_capital) ==
    position.can_operate /\ position.size_usdt <= remaining_capital

\* Line 361: the capital left after an accepted position.
capital_after(remaining_capital, position) == remaining_capital - position.size_usdt

\* Lines 351-361: one pass of the loop body on the position computed for pool.
allocation_step(acc, pool, position) ==
    IF accepts(position, acc.remaining_capital)
    THEN [allocations |-> Append(acc.allocations,
              [pool_address |-> pool.pool_address,
               pair |-> pool.pair,
               score |-> pool.score,
               allocation_pct |-> position.size_pct,
               allocation_usdt |-> position.size_usdt,
               expected_return |-> pool.net_return,
               warnings |-> position.warnings]),
          remaining_capital |-> capital_after(acc.remaining_capital, position)]
    ELSE acc

\* Variant: the loop ends at the first pool that is not accepted.
RECURSIVE MutBreakOnFirstSkip(_, _, _, _, _)
MutBreakOnFirstSkip(cfg, pool_list, good_pools, i, acc) ==
    IF i > Len(good_pools) THEN acc
    ELSE IF ~accepts(calculate_position_size(cfg, full_pool_of(pool_list, good_pools[i]), None),
                     acc.remaining_capital)
    THEN acc
    ELSE MutBreakOnFirstSkip(cfg, pool_list, good_pools, i + 1,
             allocation_step(acc, good_pools[i],
                 calculate_position_size(cfg, full_pool_of(pool_list, good_pools[i]), None)))

\* Lines 341-361: the loop; acc = [allocations, remaining_capital].
RECURSIVE allocation_loop(_, _, _, _, _)
allocation_loop(cfg, pool_list, good_pools, i, acc) ==
    IF i > Len(good_pools) THEN acc
    ELSE allocation_loop(cfg, pool_list, good_pools, i + 1,
             allocation_step(acc, good_pools[i],
                 calculate_position_size(cfg, full_pool_of(pool_list, good_pools[i]), None)))

\* round(total_allocated / capital_total * 100, 2) in hundredths of a percent.
allocated_pct(total_allocated, capital_total) ==
    IF capital_total > 0
    THEN LET x == total_allocated * 100
         IN  (x \div capital_total) * 100 + Round0((x % capital_total) * 100, capital_total)
    ELSE 0

\* Lines 363-375: the dict returned after the loop.
allocation_totals(cfg, market_check, acc, total_allocated) ==
    [can_operate |-> TRUE,
     reason |-> Reason("posicoes alocadas", <<Len(acc.allocations)>>),
     recommendation |-> market_check.recommendation,
     allocations |-> acc.allocations,
     total_allocated_usdt |-> Some(total_allocated),
     total_allocated_pct |-> Some(allocated_pct(total_allocated, cfg.capital_total)),
     remaining_capital |-> Some(acc.remaining_capital),
     market_score |-> Some(market_check.market_score)]

\* Lines 363-375.
after_allocation_loop(cfg, market_check, acc) ==
    allocation_totals(cfg, market_check, acc, cfg.capital_total - acc.remaining_capital)

\* Variant: the allocation loop runs whatever the market check decided.
MutAllocateIgnoringGate(cfg, pool_list, market_check) ==
    after_allocation_loop(cfg, market_check,
        allocation_loop(cfg, pool_list, market_check.good_pools, 1,
            [allocations |-> <<>>, remaining_capital |-> cfg.capital_total]))

\* Lines 329-375: what follows the market check.
allocate(cfg, pool_list, market_check) ==
    IF ~market_check.can_operate
    THEN [can_operate |-> FALSE,
          reason |-> market_check.reason,
          recommendation |-> market_check.recommendation,
          allocations |-> <<>>,
          total_allocated_usdt |-> None,
          total_allocated_pct |-> None,
          remaining_capital |-> None,
          market_score |-> None]
    ELSE after_allocation_loop(cfg, market_check,
             allocation_loop(cfg, pool_list, market_check.good_pools, 1,
                 [allocations |-> <<>>, remaining_capital |-> cfg.capital_total]))

calculate_portfolio_allocation(cfg, pool_list) ==
    allocate(cfg, pool_list, check_market_conditions(cfg, pool_list))

----------------------------------------------------------------------------
(* sync_position_values *)

\* round(num / den, 0) for den > 0 and any sign of num, on top of an integer
\* part whole: nearest integer, ties to even.
RoundHalfEven(whole, num, den) ==
    IF 2 * (num % den) > den
          \/ (2 * (num % den) = den /\ (whole + (num \div den)) % 2 = 1)
    THEN whole + (num \div den) + 1
    ELSE whole + (num \div den)

\* Line 384: capital_total * (pct / 100), rounded to cents by line 389;
\* capital in cents, pct in cpct, capital = q * 10^4 + r.
usdt_of_pct(capital, pct) ==
    RoundHalfEven((capital \div 10000) * pct, (capital % 10000) * pct, 10000)

\* Line 387: usdt / capital_total * 100 when capital_total > 0, else 0,
\* rounded to two decimals by line 389; the result is in cpct.
pct_of_usdt(capital, usdt) ==
    IF capital > 0
    THEN RoundHalfEven(((usdt * 100) \div capital) * 100,
                       ((usdt * 100) % capital) * 100, capital)
    ELSE 0

\* Line 383: min(value, 100.0).
cap_pct(value) == Min2(value, 10000)

\* Line 386: min(value, self.capital_total).
cap_usdt(cfg, value) == Min2(value, cfg.capital_total)

\* Lines 382-384, 389.
sync_from_pct(cfg, pct) == [pct |-> pct, usdt |-> usdt_of_pct(cfg.capital_total, pct)]

\* Lines 385-389.
sync_from_usdt(cfg, usdt) == [pct |-> pct_of_usdt(cfg.capital_total, usdt), usdt |-> usdt]

\* value is in cpct for value_type 'pct' and in cents otherwise.
sync_position_values(cfg, value, value_type) ==
    IF value_type = "pct"
    THEN sync_from_pct(cfg, cap_pct(value))
    ELSE sync_from_usdt(cfg, cap_usdt(cfg, value))

----------------------------------------------------------------------------
(* validate_stop_loss *)

\* Variant: the stop needs a loss strictly beyond the threshold.
MutStopStrictlyBeyond(cfg, current_pnl, position_size) ==
    current_pnl * 10000 < -(cfg.stop_loss * position_size)

\* Lines 396-398: loss_pct <= -self.stop_loss with
\* loss_pct = current_pnl / position_size * 100, for position_size > 0.
stop_reached(cfg, current_pnl, position_size) ==
    current_pnl * 10000 <= -(cfg.stop_loss * position_size)

\* loss_pct as the fraction (current_pnl * 100) / position_size
loss_pct_of(current_pnl, position_size) == Usd(current_pnl * 100, position_size)

validate_stop_loss(cfg, current_pnl, position_size) ==
    IF position_size <= 0
    THEN [should_stop |-> FALSE, reason |-> None, loss_amount |-> None,
          current_loss_pct |-> None]
    ELSE IF stop_reached(cfg, current_pnl, position_size)
    THEN [should_stop |-> TRUE,
          reason |-> Some(Reason("Stop Loss atingido",
                                 <<loss_pct_of(current_pnl, position_size)>>)),
          loss_amount |-> Some(current_pnl),
          current_loss_pct |-> None]
    ELSE [should_stop |-> FALSE, reason |-> None, loss_amount |-> None,
          current_loss_pct |-> Some(loss_pct_of(current_pnl, position_size))]

----------------------------------------------------------------------------
(* PoolAnalyzer: ranges, time in range, institutional score *)

\* to_float(value, default) on a value that is a number or missing.
to_float(value, default) == IF value = None THEN default ELSE value[1]

\* Variant: the multipliers of the optimized and the aggressive strategy
\* are exchanged.
MutMultipliersExchanged ==
    [defensive  |-> [lower |-> 85, upper |-> 115],
     optimized  |-> [lower |-> 96, upper |-> 104],
     aggressive |-> [lower |-> 92, upper |-> 108]]

\* Lines 35-39, in hundredths.
RANGE_MULTIPLIERS ==
    [defensive  |-> [lower |-> 85, upper |-> 115],
     optimized  |-> [lower |-> 92, upper |-> 108],
     aggressive |-> [lower |-> 96, upper |-> 104]]

\* Variant: the lower multiplier is widened with the sign of the upper one.
MutLowerWidenedUpward(strategy, volatility) ==
    IF volatility > 150
    THEN RANGE_MULTIPLIERS[strategy].lower * (1000 + (volatility - 150))
    ELSE RANGE_MULTIPLIERS[strategy].lower * 1000

\* Lines 103, 107-108: lower_mult, times (1 - (volatility - 15) / 100) when
\* volatility > 15.
lower_mult(strategy, volatility) ==
    IF volatility > 150
    THEN RANGE_MULTIPLIERS[strategy].lower * (1000 - (volatility - 150))
    ELSE RANGE_MULTIPLIERS[strategy].lower * 1000

\* Lines 104, 107-109: upper_mult, times (1 + (volatility - 15) / 100) when
\* volatility > 15.
upper_mult(strategy, volatility) ==
    IF volatility > 150
    THEN RANGE_MULTIPLIERS[strategy].upper * (1000 + (volatility - 150))
    ELSE RANGE_MULTIPLIERS[strategy].upper * 1000

\* Lines 111-117.
range_of(strategy, current_price, lower, upper) ==
    [min_price |-> current_price * lower,
     max_price |-> current_price * upper,
     spread_percent |-> upper - lower,
     strategy |-> strategy]

ranges_of(current_price, volatility) ==
    [strategy \in {"defensive", "optimized", "aggressive"} |->
        range_of(strategy, current_price,
                 lower_mult(strategy, volatility), upper_mult(strategy, volatility))]

\* Lines 94-95: the defaults are 1.0 and 10.0.
_generate_ranges(pool) ==
    ranges_of(to_float(pool.current_price, 100), to_float(pool.volatility, 100))

\* Variant: the ratio is taken against the volatility itself.
MutNoVolatilityFloor(volatility) == volatility

\* Line 179: max(volatility, 1.0).
volatility_floor(volatility) == IF volatility > 10 THEN volatility ELSE 10

\* Lines 181-192 on ratio = spread / floor, spread in thousandths and the
\* floor in tenths: ratio > r is spread > r * 100 * floor.
ratio_step(spread, floor) ==
    IF spread > 300 * floor THEN 95
    ELSE IF spread > 200 * floor THEN 85
    ELSE IF spread > 150 * floor THEN 75
    ELSE IF spread > 100 * floor THEN 65
    ELSE IF spread > 50 * floor THEN 50
    ELSE 35

_estimate_time_in_range(volatility, spread) ==
    IF spread <= 0 THEN 0
    ELSE ratio_step(spread, volatility_floor(volatility))

\* Line 164: round(time_in_range_prob * 100, 1).
reported_time_in_range(prob) == prob * 10

\* Lines 140-144, 164: the time_in_range entry of _calculate_period_returns
\* (the fee, IL and return entries are not part of this model).
period_time_in_range(pool, range_data) ==
    reported_time_in_range(
        _estimate_time_in_range(to_float(pool.volatility, 100), range_data.spread_percent))

\* Lines 121-132, for the 30-day entry read by the score.
simulated_time_in_range(pool, ranges) ==
    [strategy \in DOMAIN ranges |-> period_time_in_range(pool, ranges[strategy])]

\* Lines 198-209.
tvl_score(tvl) ==
    IF tvl > 5000000 THEN 100 ELSE IF tvl > 1000000 THEN 80
    ELSE IF tvl > 500000 THEN 60 ELSE IF tvl > 100000 THEN 40 ELSE 20

\* Lines 211-222.
volume_score(volume) ==
    IF volume > 1000000 THEN 100 ELSE IF volume > 500000 THEN 80
    ELSE IF volume > 100000 THEN 60 ELSE IF volume > 50000 THEN 40 ELSE 20

\* Lines 224-235.
fee_apr_score(fee_apr) ==
    IF fee_apr > 100 THEN 100 ELSE IF fee_apr > 50 THEN 80
    ELSE IF fee_apr > 25 THEN 60 ELSE IF fee_apr > 10 THEN 40 ELSE 20

\* Lines 237-248.
il_risk_score(il_7d) ==
    IF il_7d < 1 THEN 100 ELSE IF il_7d < 2 THEN 80
    ELSE IF il_7d < 5 THEN 60 ELSE IF il_7d < 10 THEN 40 ELSE 20

\* Lines 250-261, volatility in tenths.
volatility_score(volatility) ==
    IF volatility < 50 THEN 100 ELSE IF volatility < 100 THEN 80
    ELSE IF volatility < 150 THEN 60 ELSE IF volatility < 250 THEN 40 ELSE 20

Max2(a, b) == IF a >= b THEN a ELSE b

\* Lines 264-268.
best_time_in_range(times) ==
    Max2(Max2(times["defensive"], times["optimized"]), times["aggressive"])

\* Variant: the time-in-range score is not capped at 100.
MutTimeScoreUncapped(best) == (best * 12) \div 10

\* Line 269: min(100, best_time_in_range * 1.2), in tenths of a point.
time_in_range_score(best) == Min2(1000, (best * 12) \div 10)

\* Lines 42-49, in hundredths.
SCORE_WEIGHTS ==
    [tvl |-> 20, volume |-> 15, fee_apr |-> 25, il_risk |-> 20, volatility |-> 10,
     time_in_range |-> 10]

\* Lines 272-274: the weighted sum, in thousandths of a point.
weighted_sum(pool, time_score) ==
    10 * ( tvl_score(to_float(pool.tvl_usd, 0)) * SCORE_WEIGHTS.tvl
         + volume_score(to_float(pool.volume_24h, 0)) * SCORE_WEIGHTS.volume
         + fee_apr_score(to_float(pool.fee_apr, 0)) * SCORE_WEIGHTS.fee_apr
         + il_risk_score(to_float(pool.il_7d, 0)) * SCORE_WEIGHTS.il_risk
         + volatility_score(to_float(pool.volatility, 0)) * SCORE_WEIGHTS.volatility )
    + time_score * SCORE_WEIGHTS.time_in_range

\* Line 276: int(final_score) truncates toward zero.
int_of(thousandths) ==
    IF thousandths >= 0 THEN thousandths \div 1000 ELSE -((-thousandths) \div 1000)

\* simulations is the 30-day time_in_range of each strategy.
_calculate_institutional_score(pool, simulations) ==
    int_of(weighted_sum(pool, time_in_range_score(best_time_in_range(simulations))))

----------------------------------------------------------------------------
(* UniswapV3Scanner: scan_pools (src/scanner.py) *)
(*   tvl_usd, volume_24h        integer USD                                *)
(*   fee_tier                   integer hundredths of a percent            *)
(*   fees_24h                   integer ten-thousandths of a USD           *)
(* The price fields, recommendation, explanation and last_analyzed of a    *)
(* pool are not part of this model.                                        *)

\* A JSON null where a string was expected.
JsonNull == "<null>"

\* A pool dict; a key that is absent is None.
ScanPool(address, token0, token1, fee_tier, tvl, volume, fees) ==
    [address |-> address, token0_symbol |-> token0, token1_symbol |-> token1,
     fee_tier |-> fee_tier, tvl_usd |-> tvl, volume_24h |-> volume,
     fees_24h |-> fees, score |-> None]

\* An entry of KNOWN_POOLS: pair is kept as its two tokens.
Known(address, token0, token1, tvl, volume, fee) ==
    [address |-> address, pair |-> <<token0, token1>>, tvl |-> tvl,
     volume |-> volume, fee |-> fee]

\* Lines 32-86.
KNOWN_POOLS ==
    <<
       Known("0xc31e54c7a869b9fcbecc14363cf510d1c41fa443", "WETH", "USDC", 1807800, 1006785, 5),
       Known("0x641c00a822e8b671738d32a431a4fb6074e5c79d", "WETH", "USDT", 13002142, 5365696, 5),
       Known("0x0e4831319a50228b9e450861297ab92dee15b44f", "WBTC", "USDC", 5033761, 1883348, 30),
       Known("0x92c63d0e701caae670c9415d91c474f686298f00", "ARB", "WETH", 219640, 78712, 5),
       Known("0x35218a1cbac5bbc3e57fd9bd38219d37571b3537", "WETH", "WBTC", 3500000, 1200000, 5),
       Known("0xfae941346ac34908b8d7d000f86056a18049146e", "ARB", "USDC", 4100000, 2900000, 30),
       Known("0xcda53b1f66614552f834ceef361a8d12a0b8dad8", "ARB", "USDT", 1800000, 950000, 5),
       Known("0x8c9d230d45d6cfee39a6680fb7cb7e8de7ea8e71", "WETH", "DAI", 2200000, 1100000, 30),
       Known("0x446bf9748b4ea044dd759d9b9311c70491df8f29", "GMX", "WETH", 1500000, 750000, 30),
       Known("0x81c48d31365e6b526f6bbadc5c9aafd822134863", "LINK", "WETH", 900000, 450000, 30),
       Known("0xa961f0473da4864c5ed28e00fcc53a3aab056c1b", "USDC", "USDT", 8000000, 3200000, 1),
       Known("0x2f5e87c9312fa29aed5c179e456625d79015299c", "WETH", "ARB", 1200000, 600000, 5),
       Known("0xac70bd92f89e6739b3a08db9b6081a923912f73d", "UNI", "WETH", 750000, 350000, 30),
       Known("0x4c36388be6f416a29c8d8eee81c771ce6be14b18", "RDNT", "WETH", 650000, 320000, 30),
       Known("0x0c1bf12ca28acfc6e143b14251050af5b436445e", "MAGIC", "WETH", 520000, 280000, 30),
       Known("0xd0b53d9277642d899df5c87a3966a349a798f224", "PENDLE", "WETH", 480000, 240000, 30),
       Known("0x1aeedd3727a6431b8f070c0afaa81cc74f273882", "DPX", "WETH", 420000, 210000, 30),
       Known("0x7cf803e8d82e9a3e2060b6829d9a4e2fa0e077b2", "GRAIL", "WETH", 380000, 190000, 30),
       Known("0x97bca122ec9bbdee0b279156849a02e257a2dc03", "SUSHI", "WETH", 350000, 175000, 30),
       Known("0x5e5bbfb16c20d5c65d96f0f90e5a675f7eb01895", "CRV", "WETH", 320000, 160000, 30),
       Known("0xc473e2aee3441bf9240be85eb122abb059a3b57c", "WETH", "USDC", 950000, 425000, 30),
       Known("0x1d42064fc4beb5f8aaf85f4617ae8b3b5b8bd801", "UNI", "USDC", 680000, 340000, 30),
       Known("0x17c14d2c404d167802b16c450d3c99f88f2c4f4d", "WETH", "USDT", 2100000, 980000, 30),
       Known("0x0032f5e1520a66c6e572e96a11fbf54aea26f9be", "WBTC", "WETH", 1450000, 620000, 30),
       Known("0x68f5c0a2de713a54991e01858fd27a3832401849", "OP", "WETH", 420000, 210000, 30),
       Known("0x4c83a7f819a5c37d64b4c5a2f8238ea082fa1f4e", "LDO", "WETH", 380000, 190000, 30),
       Known("0x0e4bf2273206b3ab52b9b2e1e3d7e43b20e5d033", "MKR", "WETH", 550000, 275000, 30),
       Known("0xf0428617433652c9dc6d1093a42adfd52c5678b9", "RPL", "WETH", 290000, 145000, 30),
       Known("0xc6f780497a95e246eb9449f5e4770916dcd6396a", "MATIC", "WETH", 460000, 230000, 30),
       Known("0xa6cc3c2531fdaa6ae1a3ca84c2855806728693e8", "LINK", "USDC", 720000, 360000, 30),
       Known("0x88e6a0c2ddd26feeb64f039a2c41296fcb3f5640", "USDC", "WETH", 15000000, 8500000, 5),
       Known("0x109830a1aaad605bbf02a9dfa7b0b92ec2fb7daa", "WSTETH", "WETH", 3200000, 1600000, 5),
       Known("0x2e8c05582d1a5d43d6b81b857e1144e7c3f17894", "PEPE", "WETH", 280000, 450000, 30),
       Known("0xb1026b8e7276e7ac75410f1fcbbe21796e8f7526", "AIOZ", "WETH", 180000, 90000, 100),
       Known("0x2f0b4300074afc01726262d4cc9c3a3d9e2c5e4a", "YFI", "WETH", 220000, 110000, 30),
       Known("0x369e7f597a9f4c984b87823e3adc74b388fb9b2f", "FRAX", "USDC", 890000, 445000, 5),
       Known("0x8ad599c3a0ff1de082011efddc58f1908eb6e6d8", "USDC", "WETH", 12000000, 6800000, 30),
       Known("0x5777d92f208679db4b9778590fa3cab3ac9e2168", "DAI", "USDC", 9500000, 3200000, 1),
       Known("0x2260fac5e5542a773aa44fbcfedf7c193bc2c599", "WBTC", "USDC", 4200000, 2100000, 30),
       Known("0xf4c5e0f4590b6679b3030d29a84857f226087fef", "SNX", "WETH", 340000, 170000, 30),
       Known("0xc82819f72a9e77e2c0c3a69b3196478f44303cf4", "COMP", "WETH", 290000, 145000, 30),
       Known("0xa3f558aebaecaf0e11ca4b2199cc5ed341edfd74", "LDO", "USDC", 410000, 205000, 30),
       Known("0x84383fb05f610222430f69727aa638f8fdbf5cc1", "RPL", "USDC", 270000, 135000, 100),
       Known("0x9db9e0e53058c89e5b94e29621a205198648425b", "WBTC", "USDT", 3800000, 1900000, 30),
       Known("0xa9ffb27d36901f87f1d0f20773f7072e38c5bfba", "1INCH", "WETH", 260000, 130000, 30),
       Known("0x5764a6f2212d502bc5970f9f129ffcd61e5d7563", "SHIB", "WETH", 320000, 480000, 30),
       Known("0x2e8c50f6a964b82b7c9e3cd9f018f31fa6bc4d6f", "APE", "WETH", 380000, 290000, 30),
       Known("0x4585fe77225b41b697c938b018e2ac67ac5a20c0", "WBTC", "WETH", 6500000, 3250000, 5),
       Known("0xcbcdf9626bc03e24f779434178a73a0b4bad62ed", "WBTC", "WETH", 8200000, 4100000, 30),
       Known("0xc5af84701f98fa483ece78af83f11b6c38aca71d", "LOOKS", "WETH", 180000, 90000, 30)
    >>

\* Lines 92-93.
MIN_TVL == 50000
MIN_VOLUME_24H == 5000

\* Lines 96-103.
INSTITUTIONAL_TOKENS ==
    {"WETH", "ETH", "USDC", "USDT", "ARB", "WBTC", "DAI", "GMX", "LINK", "UNI",
     "AAVE", "CRV", "SUSHI", "USDC.e", "MAGIC", "RDNT", "DPX", "GRAIL", "PENDLE",
     "GNS", "STG", "OP", "LDO", "MKR", "RPL", "MATIC", "WSTETH", "PEPE", "FRAX",
     "SNX", "COMP", "1INCH", "SHIB", "APE", "LOOKS", "YFI", "AIOZ"}

\* str.upper() on the symbols of the model.
upper(symbol) ==
    CASE symbol = "weth" -> "WETH"
      [] symbol = "usdc.e" -> "USDC.E"
      [] symbol = "USDC.e" -> "USDC.E"
      [] OTHER -> symbol

\* Lines 268-278 and 448-458: a known pool as a pool dict.
known_pool(known) ==
    ScanPool(known.address, Some(known.pair[1]), Some(known.pair[2]), Some(known.fee),
             Some(known.tvl), Some(known.volume), Some(known.volume * known.fee))

\* Lines 442-460.
_fetch_known_pools_fallback == [i \in 1..Len(KNOWN_POOLS) |-> known_pool(KNOWN_POOLS[i])]

\* pool.get(key, '') with a JSON null: None.upper() raises AttributeError
\* (lines 500-501).
symbol_raises(pool) ==
    pool.token0_symbol = Some(JsonNull) \/ pool.token1_symbol = Some(JsonNull)

\* pool.get('token0_symbol', '').upper()
symbol_upper(symbol) == IF symbol = None THEN "" ELSE upper(symbol[1])

\* Lines 498-513.
_is_institutional_pool(pool) ==
    /\ \/ symbol_upper(pool.token0_symbol) \in INSTITUTIONAL_TOKENS
       \/ symbol_upper(pool.token1_symbol) \in INSTITUTIONAL_TOKENS
    /\ ~(to_float(pool.tvl_usd, 0) < MIN_TVL)
    /\ ~(to_float(pool.volume_24h, 0) < MIN_VOLUME_24H)

\* a / b > c / d for a, c >= 0 and b, d > 0, without forming the products.
RECURSIVE FracGt(_, _, _, _)
FracGt(a, b, c, d) ==
    IF a \div b # c \div d THEN a \div b > c \div d
    ELSE IF a % b = 0 THEN FALSE
    ELSE IF c % d = 0 THEN TRUE
    ELSE FracGt(d, c % d, b, a % b)

\* Line 520: apr = fees_24h * 365 / tvl * 100 if tvl > 0 else 0; apr > t is
\* fees / tvl > t * 20 / 73 with fees in ten-thousandths of a USD.
apr_above(fees, tvl, t) == tvl > 0 /\ FracGt(fees, tvl, t * 20, 73)

\* Lines 538-550.
scan_tvl_points(tvl) ==
    IF tvl > 10000000 THEN 30 ELSE IF tvl > 5000000 THEN 25
    ELSE IF tvl > 1000000 THEN 20 ELSE IF tvl > 500000 THEN 15
    ELSE IF tvl > 100000 THEN 10 ELSE 5

\* Lines 553-560.
scan_apr_points(fees, tvl) ==
    IF apr_above(fees, tvl, 50) THEN 20 ELSE IF apr_above(fees, tvl, 30) THEN 15
    ELSE IF apr_above(fees, tvl, 15) THEN 10 ELSE IF apr_above(fees, tvl, 5) THEN 5
    ELSE 0

\* Lines 563-571: volume / tvl above 0.5, 0.3, 0.1.
scan_ratio_points(volume, tvl) ==
    IF tvl > 0
    THEN IF 2 * volume > tvl THEN 15 ELSE IF 10 * volume > 3 * tvl THEN 10
         ELSE IF 10 * volume > tvl THEN 5 ELSE 0
    ELSE 0

premium_tokens == {"WETH", "ETH", "WBTC", "USDC", "USDT"}

is_premium(symbol) == symbol # None /\ symbol[1] \in premium_tokens

\* Lines 574-578.
scan_token_points(pool) ==
    IF is_premium(pool.token0_symbol) /\ is_premium(pool.token1_symbol) THEN 10
    ELSE IF is_premium(pool.token0_symbol) \/ is_premium(pool.token1_symbol) THEN 5
    ELSE 0

\* Lines 581-583: fee in [0.05, 0.3].
scan_fee_points(fee_tier) == IF fee_tier \in {5, 30} THEN 5 ELSE 0

\* Line 586: min(100, max(0, score - 20)).
normalized(score) == Min2(100, Max2(0, score - 20))

\* Lines 533-588: UniswapV3Scanner._calculate_institutional_score.
scan_score(pool, tvl) ==
    normalized(50 + scan_tvl_points(tvl)
                  + scan_apr_points(to_float(pool.fees_24h, 0), to_float(pool.tvl_usd, 1))
                  + scan_ratio_points(to_float(pool.volume_24h, 0), tvl)
                  + scan_token_points(pool)
                  + scan_fee_points(to_float(pool.fee_tier, 0)))

\* Lines 515-531: _analyze_pool adds the score to the pool.
_analyze_pool(pool) == [pool EXCEPT !.score = Some(scan_score(pool, to_float(pool.tvl_usd, 0)))]

\* The outcome of a fetch: a list of pools, or an exception.
Fetched(fetched_pools) == [raised |-> FALSE, pools |-> fetched_pools]
FetchRaises == [raised |-> TRUE, pools |-> <<>>]

addresses_of(pool_list) == {pool_list[i].address : i \in 1..Len(pool_list)}

\* The elements of a list at the positions in keep, in the list's order.
at_positions(list, positions) == [k \in 1..Len(positions) |-> list[positions[k]]]

picked(list, keep) ==
    at_positions(list, SelectSeq([i \in 1..Len(list) |-> i], LAMBDA i : i \in keep))

\* The first count positions of keep.
first_of(keep, count) == {i \in keep : Cardinality({j \in keep : j < i}) < count}

\* The positions of a fetched list whose address was not added before: not
\* among the added addresses and not at an earlier position of the list.
new_positions(added, fetched_pools) ==
    {i \in 1..Len(fetched_pools) :
        /\ fetched_pools[i].address \notin added
        /\ \A j \in 1..(i - 1) : fetched_pools[j].address # fetched_pools[i].address}

\* Lines 217-220, 226-229: the loop that appends the pools whose address
\* is not in pools_added, written without the loop.
add_new(all_pools, fetched_pools) ==
    all_pools \o picked(fetched_pools, new_positions(addresses_of(all_pools), fetched_pools))

\* Lines 224-234 (and 237-247, 250-260): one source inside its own try.
add_source(all_pools, fetch) ==
    IF fetch.raised THEN all_pools ELSE add_new(all_pools, fetch.pools)

\* Lines 265-283: the loop over KNOWN_POOLS, left once min_pools is
\* reached: the first known pools not added yet, as many as are missing
\* (at least one, the length is tested after the append).
fill_known(all_pools, min_pools) ==
    all_pools \o picked(_fetch_known_pools_fallback,
                        first_of(new_positions(addresses_of(all_pools), KNOWN_POOLS),
                                 Max2(1, min_pools - Len(all_pools))))

\* Lines 263-283.
complemented(all_pools, min_pools) ==
    IF Len(all_pools) < min_pools THEN fill_known(all_pools, min_pools) ELSE all_pools

\* Lines 216-221.
with_custom(custom_pools, include_custom) ==
    IF include_custom /\ custom_pools # <<>> THEN add_new(<<>>, custom_pools) ELSE <<>>

\* Lines 212-283: everything collected before the filter.
collected(custom_pools, graph, gecko, dex, include_custom, min_pools) ==
    complemented(
        add_source(add_source(add_source(with_custom(custom_pools, include_custom),
                                         graph), gecko), dex),
        min_pools)

\* Line 289: min(len(all_pools), max(min_pools, 60)).
pools_to_process(all_pools, min_pools) == Min2(Len(all_pools), Max2(min_pools, 60))

analyzed_list(kept) == [k \in 1..Len(kept) |-> _analyze_pool(kept[k])]

\* Lines 291-294 on the pools that are processed.
filtered_pools(processed) ==
    analyzed_list(picked(processed,
        {j \in 1..Len(processed) : _is_institutional_pool(processed[j])}))

\* Lines 288-311: a raise in the filter reaches the outer handler, which
\* returns the fallback list.
scan_result(processed) ==
    IF \E i \in 1..Len(processed) : symbol_raises(processed[i])
    THEN [fallback |-> TRUE, pools |-> _fetch_known_pools_fallback]
    ELSE [fallback |-> FALSE, pools |-> filtered_pools(processed)]

processed_of(all_pools, min_pools) ==
    scan_result(SubSeq(all_pools, 1, pools_to_process(all_pools, min_pools)))

\* Lines 207-311.
scan_pools(custom_pools, graph, gecko, dex, include_custom, min_pools) ==
    processed_of(collected(custom_pools, graph, gecko, dex, include_custom, min_pools),
                 min_pools)

\* The last pool of a list with the given address.
last_with(saved_pools, address) ==
    saved_pools[CHOOSE i \in 1..Len(saved_pools) :
        /\ saved_pools[i].address = address
        /\ \A j \in (i + 1)..Len(saved_pools) : saved_pools[j].address # address]

\* Lines 643-645: the rows that exist are updated.
updated(table, saved_pools) ==
    [i \in 1..Len(table) |->
        IF table[i].address \in addresses_of(saved_pools)
        THEN last_with(saved_pools, table[i].address)
        ELSE table[i]]

\* Lines 646-648: the pools without a row are inserted.
inserted(table, saved_pools) ==
    [k \in 1..Len(saved_pools) |-> last_with(saved_pools, saved_pools[k].address)]

\* Lines 618-651: update the row with the pool's address or insert one,
\* pool after pool.
_save_to_database(table, saved_pools) ==
    updated(table, saved_pools)
        \o inserted(table, picked(saved_pools, new_positions(addresses_of(table), saved_pools)))

----------------------------------------------------------------------------
(* The position-size endpoint (src/main.py) *)

\* safe_float on a figure that may be missing.
safe_float(value, default) == Get(value, default)

\* bool(blob): a text is never empty here, a dict is empty without strategies.
truthy_blob(blob) ==
    /\ blob # None
    /\ blob[1].kind = "dict" =>
           \E i \in 1..Len(StrategyKeys) : blob[1].sims[StrategyKeys[i]] # None

\* Line 189: pool.get("simulations_data") or pool.get("simulations").
sims_raw_of(pool) ==
    IF truthy_blob(pool.simulations_data) THEN pool.simulations_data
    ELSE IF truthy_blob(pool.simulations) THEN pool.simulations
    ELSE None

\* Lines 193-202: json.loads of a text, None when it raises.
simulations_of(sims_raw) ==
    IF sims_raw[1].kind = "dict" THEN Some(sims_raw[1].sims) ELSE json_loads(sims_raw[1])

\* Lines 204-212: the loop over simulations.items(); a missing net_after_gas
\* counts as 0, the first of equal figures is kept.
RECURSIVE BestPeriod(_, _, _, _)
BestPeriod(simulations, i, best, best_net_after_gas_7d) ==
    IF i > Len(StrategyKeys) THEN best
    ELSE IF simulations[StrategyKeys[i]] = None
         THEN BestPeriod(simulations, i + 1, best, best_net_after_gas_7d)
    ELSE IF best = None
            \/ safe_float(simulations[StrategyKeys[i]][1].net_after_gas, 0)
                   > best_net_after_gas_7d
         THEN BestPeriod(simulations, i + 1, simulations[StrategyKeys[i]],
                         safe_float(simulations[StrategyKeys[i]][1].net_after_gas, 0))
    ELSE BestPeriod(simulations, i + 1, best, best_net_after_gas_7d)

\* Line 218: best.get("net_after_gas", best.get("net_return", 0)).
net_return_pct_of(best) ==
    safe_float(IF best.net_after_gas # None THEN best.net_after_gas ELSE best.net_return, 0)

\* Lines 221-232: net_return is capital_ref * (net_return_pct / 100.0) with
\* capital_ref = 1000.0, ten times the percent figure. The block has no
\* net_after_gas and no time_in_range key; its "raw" key is read by nobody.
simulation_block(best) ==
    [EmptyDict EXCEPT !.net_return = Some(10 * net_return_pct_of(best)),
                      !.il_percentage = Some(safe_float(best.impermanent_loss, 0))]

\* Lines 214-232 on the period that was chosen.
block_of(best) ==
    IF best = None \/ best = Some(EmptyDict) THEN None ELSE Some(simulation_block(best[1]))

\* Lines 182-232.
build_simulation_7d_from_pool(pool) ==
    IF sims_raw_of(pool) = None THEN None
    ELSE IF simulations_of(sims_raw_of(pool)) = None THEN None
    ELSE block_of(BestPeriod(simulations_of(sims_raw_of(pool))[1], 1, None, 0))

\* Lines 235-240.
attach_simulation_7d(pool) ==
    IF build_simulation_7d_from_pool(pool) # None
    THEN [pool EXCEPT !.simulation_7d = build_simulation_7d_from_pool(pool)]
    ELSE pool

\* Lines 1217-1253: the position the endpoint returns for a stored row.
api_position_size(cfg, pool, override_pct) ==
    calculate_position_size(cfg, attach_simulation_7d(pool), override_pct)

----------------------------------------------------------------------------
(* EMITYWorker: opportunity and market alerts (src/worker.py) and the      *)
(* messages of TelegramBot (src/telegram_bot.py). Time is in whole hours.  *)

\* dict.get(key): None for a key the dict does not have.
dict_get(d, key) == IF key \in DOMAIN d THEN Some(d[key]) ELSE None

\* The truth value of dict.get(key) for a flag.
truthy(value) == value = Some(TRUE)

\* telegram_bot.py 35-63: send_message returns False instead of raising; the
\* message reaches the chat when the API accepts it.
send_message(sent, message, telegram_up) ==
    IF telegram_up THEN Append(sent, message) ELSE sent

\* telegram_bot.py 111-126: the opportunity alert of a pool.
send_opportunity_alert(pool, at) ==
    [type |-> "OPPORTUNITY", title |-> "Nova Pool Recomendada!",
     pool_address |-> pool.address, at |-> at]

\* telegram_bot.py 161-182: the title follows market_status.get("should_operate").
send_market_alert(market_status, at) ==
    [type |-> "MARKET",
     title |-> IF truthy(dict_get(market_status, "should_operate"))
               THEN "Mercado Favoravel para Operar"
               ELSE "Mercado Desfavoravel - NAO OPERAR",
     pool_address |-> None, at |-> at]

\* worker.py 99-111: the row of an opportunity alert.
opportunity_row(pool_id, at) ==
    [type |-> "OPPORTUNITY", pool_address |-> pool_id, severity |-> "success",
     created_at |-> at]

\* worker.py 194-201: the row of a market alert.
market_row(market_check, at) ==
    [type |-> "MARKET", pool_address |-> None,
     severity |-> IF truthy(dict_get(market_check, "should_operate"))
                  THEN "info" ELSE "warning",
     created_at |-> at]

\* worker.py 80: select("*").gte("score", 70).
high_score_pools(table) == SelectSeq(table, LAMBDA pool : pool.score >= 70)

\* worker.py 87-90: the pool was alerted less than 6 hours ago.
alerted_recently(history, pool_id, at) ==
    pool_id \in DOMAIN history /\ at - history[pool_id] < 6

\* worker.py 114: self.alert_history[pool_id] = datetime.utcnow().
remembered(history, pool_id, at) ==
    [id \in DOMAIN history \cup {pool_id} |-> IF id = pool_id THEN at ELSE history[id]]

\* worker.py 93-114 for one pool: the message is sent, then the row is
\* inserted, then the history is updated; an insert that raises leaves the
\* loop for the handler's except clause (118-119).
alert_opportunity(acc, pool, at, telegram_up, insert_ok) ==
    IF insert_ok
    THEN [alert_history |-> remembered(acc.alert_history, pool.address, at),
          telegram |-> send_message(acc.telegram, send_opportunity_alert(pool, at),
                                    telegram_up),
          alerts |-> Append(acc.alerts, opportunity_row(pool.address, at)),
          raised |-> FALSE]
    ELSE [acc EXCEPT !.telegram = send_message(acc.telegram,
                                               send_opportunity_alert(pool, at), telegram_up),
                     !.raised = TRUE]

\* worker.py 83-114: the body of the loop.
opportunity_step(acc, pool, at, telegram_up, insert_ok) ==
    IF alerted_recently(acc.alert_history, pool.address, at) THEN acc
    ELSE IF pool.score >= 75 THEN alert_opportunity(acc, pool, at, telegram_up, insert_ok)
    ELSE acc

\* worker.py 83-114: the loop over the selected pools.
RECURSIVE opportunity_loop(_, _, _, _, _, _)
opportunity_loop(selected, i, acc, at, telegram_up, insert_ok) ==
    IF i > Len(selected) \/ acc.raised THEN acc
    ELSE opportunity_loop(selected, i + 1,
             opportunity_step(acc, selected[i], at, telegram_up, insert_ok),
             at, telegram_up, insert_ok)

\* worker.py 74-119: a select that raises ends the handler at once.
check_opportunities(acc, table, at, select_ok, telegram_up, insert_ok) ==
    IF select_ok
    THEN opportunity_loop(high_score_pools(table), 1, acc, at, telegram_up, insert_ok)
    ELSE acc

\* database.py 62-74: get_pools orders the rows by score, highest first
\* (rows of equal score keep their order here).
get_pools(table) ==
    [k \in 1..Len(table) |->
        table[CHOOSE i \in 1..Len(table) :
            Cardinality({j \in 1..Len(table) :
                \/ table[j].score > table[i].score
                \/ table[j].score = table[i].score /\ j < i}) = k - 1]]

\* worker.py 184-188: the engine's verdict on the stored pools.
worker_market_check(cfg, table) == check_market_conditions(cfg, get_pools(table))

----------------------------------------------------------------------------
(* The inputs: configurations and pool rows *)

\* User configurations within the limits ConfigUpdate enforces
\* (src/main.py, 131-137).
Cfg(capital, perfil, positions, size, score, gas) ==
    [capital_total |-> capital, perfil_risco |-> perfil, max_positions |-> positions,
     stop_loss |-> 1000, max_position_size |-> size, min_score |-> score,
     gas_multiplier |-> gas]

Configs ==
    { Cfg(1000000, "conservador", 3, 30000, 60, 20),   \* create_default_config
      Cfg(1000000, "agressivo", 3, 100000, 0, 10),
      Cfg(1000000, "moderado", 1, 5000, 70, 20),
      Cfg(333333, "conservador", 2, 12500, 20, 10) }

Dict(net_return, net_after_gas, il_percentage, impermanent_loss) ==
    [net_return |-> net_return, net_after_gas |-> net_after_gas,
     time_in_range |-> Some(850), il_percentage |-> il_percentage,
     impermanent_loss |-> impermanent_loss]

Blob(kind, defensive, optimized, aggressive) ==
    [kind |-> kind,
     sims |-> [defensive |-> defensive, optimized |-> optimized,
               aggressive |-> aggressive]]

Row(addr_key, addr, score) ==
    [pool_address |-> IF addr_key = "pool_address" THEN Some(addr) ELSE None,
     address |-> IF addr_key = "address" THEN Some(addr) ELSE None,
     pair |-> None, token0_symbol |-> Some("WETH"), token1_symbol |-> Some("USDC"),
     score |-> score, simulation_7d |-> None, sim_7d |-> None,
     simulations |-> None, simulations_data |-> None, apr_7d |-> None]

\* score 100, a ready simulation_7d: 3% net after gas, 5% IL
PoolA ==
    [Row("address", "0xa", 100) EXCEPT
        !.simulation_7d = Some(Dict(Some(350), Some(300), Some(500), None))]

\* score 60, the analyzer's JSON text; the best strategy (0.30% net after
\* gas) is not the first one
PoolB ==
    [Row("address", "0xb", 60) EXCEPT
        !.simulations_data = Some(Blob("json",
            Some(Dict(Some(60), Some(10), None, Some(600))),
            Some(Dict(Some(80), Some(30), None, Some(200))),
            Some(Dict(Some(-50), None, None, Some(50)))))]

\* score 80, an unparseable simulations_data text, an apr_7d of 100%
PoolC ==
    [Row("pool_address", "0xc", 80) EXCEPT
        !.simulations_data = Some(Blob("text", None, None, None)),
        !.apr_7d = Some(100)]

\* score 20, a sim_7d dict with net_return and impermanent_loss only
PoolD ==
    [Row("pool_address", "0xd", 20) EXCEPT
        !.pair = Some(<<"ARB/USDC">>),
        !.sim_7d = Some(Dict(Some(300), None, None, Some(100)))]

\* score 90, a simulation with a zero net after gas, an apr_7d of 150%
PoolE ==
    [Row("address", "0xe", 90) EXCEPT
        !.simulation_7d = Some(Dict(Some(50), Some(0), Some(800), None)),
        !.apr_7d = Some(150)]

\* score 49, an already parsed simulations dict with one strategy, 6% IL
PoolF ==
    [Row("address", "0xf", 49) EXCEPT
        !.simulations = Some(Blob("dict",
            None, Some(Dict(Some(300), Some(250), None, Some(600))), None))]

PoolSet == {PoolA, PoolB, PoolC, PoolD, PoolE, PoolF}

\* override_pct of the request: absent, 0, negative, fractional, above the cap
Overrides == {None, Some(0), Some(-5000), Some(12346), Some(50000)}

\* All lists of at most MaxPools rows.
PoolLists == UNION {[1..n -> PoolSet] : n \in 0..MaxPools}

\* Longer lists, as the pools table returns them (up to 100 rows): a run of
\* each of three rows.
Run(pool, n) == [i \in 1..n |-> pool]
RunLists ==
    {Run(PoolA, a) \o Run(PoolF, b) \o Run(PoolC, c) :
        a \in 0..MaxRun, b \in 0..MaxRun, c \in 0..MaxRun}

----------------------------------------------------------------------------
(* The state machine *)

\* EMITYWorker.__init__ (worker.py 29-35) at hour 0, nothing sent or stored.
WorkerStart ==
    /\ now = 0
    /\ alert_history = <<>>
    /\ telegram = <<>>
    /\ alerts = <<>>

NoCall == [op |-> "none", index |-> 0, override_pct |-> None]

Init ==
    /\ config \in Configs
    /\ pools \in PoolLists
    /\ call = NoCall
    /\ ret = None
    /\ WorkerStart

\* RiskEngine.calculate_position_size on one of the rows.
CalculatePositionSize ==
    \E i \in 1..Len(pools), o \in Overrides :
        /\ call' = [op |-> "calculate_position_size", index |-> i, override_pct |-> o]
        /\ ret' = Some(calculate_position_size(config, pools[i], o))
        /\ UNCHANGED <<config, pools, worker_vars>>

\* GET /api/market-check and the worker's periodic check.
CheckMarketConditions ==
    /\ call' = [op |-> "check_market_conditions", index |-> 0, override_pct |-> None]
    /\ ret' = Some(check_market_conditions(config, pools))
    /\ UNCHANGED <<config, pools, worker_vars>>

\* GET /api/portfolio-allocation.
CalculatePortfolioAllocation ==
    /\ call' = [op |-> "calculate_portfolio_allocation", index |-> 0, override_pct |-> None]
    /\ ret' = Some(calculate_portfolio_allocation(config, pools))
    /\ UNCHANGED <<config, pools, worker_vars>>

Next ==
    \/ CalculatePositionSize
    \/ CheckMarketConditions
    \/ CalculatePortfolioAllocation

Spec == Init /\ [][Next]_vars

\* The market operations on short lists and on the longer runs.
InitMarket ==
    /\ config \in Configs
    /\ pools \in PoolLists \cup RunLists
    /\ call = NoCall
    /\ ret = None
    /\ WorkerStart

NextMarket ==
    \/ CheckMarketConditions
    \/ CalculatePortfolioAllocation

SpecMarket == InitMarket /\ [][NextMarket]_vars

\* The allocation on lists long enough for a pool to be skipped for lack of
\* capital and a later, smaller one to be taken: rows with their own
\* address, a 3% net return after gas and sizes of 40% and 17.5%.
GreedyPool(addr, score) ==
    [Row("address", addr, score) EXCEPT
        !.simulation_7d = Some(Dict(Some(350), Some(300), Some(500), None))]

GreedyPoolSet ==
    {GreedyPool("0x1", 100), GreedyPool("0x2", 100), GreedyPool("0x3", 100),
     GreedyPool("0x4", 70), PoolB}

GreedyConfigs ==
    { Cfg(1000000, "agressivo", 4, 100000, 0, 10),
      Cfg(1000000, "agressivo", 2, 100000, 50, 10) }

InitGreedy ==
    /\ config \in GreedyConfigs
    /\ pools \in UNION {[1..n -> GreedyPoolSet] : n \in 0..MaxGreedyPools}
    /\ call = NoCall
    /\ ret = None
    /\ WorkerStart

NextGreedy ==
    \/ CheckMarketConditions
    \/ CalculatePortfolioAllocation

SpecGreedy == InitGreedy /\ [][NextGreedy]_vars

\* The allocation on lists in which rows share an address or carry none.
UnaddressedPool(score) ==
    [GreedyPool("0x1", score) EXCEPT !.address = None]

SharedPoolSet ==
    {GreedyPool("0x1", 100), GreedyPool("0x1", 70), UnaddressedPool(100),
     UnaddressedPool(70), PoolB}

InitShared ==
    /\ config \in GreedyConfigs
    /\ pools \in UNION {[1..n -> SharedPoolSet] : n \in 0..MaxPools}
    /\ call = NoCall
    /\ ret = None
    /\ WorkerStart

NextShared ==
    \/ CheckMarketConditions
    \/ CalculatePortfolioAllocation

SpecShared == InitShared /\ [][NextShared]_vars

\* POST /api/position-size on one of the stored rows.
ApiPositionSize ==
    \E i \in 1..Len(pools), o \in Overrides :
        /\ call' = [op |-> "api_position_size", index |-> i, override_pct |-> o]
        /\ ret' = Some(api_position_size(config, pools[i], o))
        /\ UNCHANGED <<config, pools, worker_vars>>

\* The endpoint next to the engine it calls.
NextApi ==
    \/ ApiPositionSize
    \/ CalculatePositionSize

SpecApi == Init /\ [][NextApi]_vars

----------------------------------------------------------------------------
(* The conversion and stop-loss operations on numeric arguments *)

\* value of POST /api/sync-position-value: cpct or cents; negative, zero,
\* inside the range, at the cap and above it for either unit
SyncValues == {-500, -1, 0, 1, 1500, 10000, 15000, 333333, 1000000, 1200000}

ValueTypes == {"pct", "usdt", "other"}

\* current_pnl and position_size in cents
PnlValues == {-15000, -10000, -9999, -7, 0, 5000}
SizeValues == {-1000, 0, 70, 100000}

InitValues ==
    /\ config \in Configs
    /\ pools = <<>>
    /\ call = NoCall
    /\ ret = None
    /\ WorkerStart

\* POST /api/sync-position-value.
SyncPositionValues ==
    \E v \in SyncValues, t \in ValueTypes :
        /\ call' = [op |-> "sync_position_values", value |-> v, value_type |-> t]
        /\ ret' = Some(sync_position_values(config, v, t))
        /\ UNCHANGED <<config, pools, worker_vars>>

\* validate_stop_loss on an open position.
ValidateStopLoss ==
    \E pnl \in PnlValues, size \in SizeValues :
        /\ call' = [op |-> "validate_stop_loss", current_pnl |-> pnl,
                    position_size |-> size]
        /\ ret' = Some(validate_stop_loss(config, pnl, size))
        /\ UNCHANGED <<config, pools, worker_vars>>

NextValues ==
    \/ SyncPositionValues
    \/ ValidateStopLoss

SpecValues == InitValues /\ [][NextValues]_vars

----------------------------------------------------------------------------
(* The operations on values that may not be numbers *)

\* A Python value where a number is expected: a number, None, or a text.
Num(v) == [kind |-> "num", val |-> v]
NoneValue == [kind |-> "none", val |-> 0]
TextValue == [kind |-> "str", val |-> 0]

\* An ordering comparison or an arithmetic operation between the value and a
\* number raises TypeError unless the value is a number.
raises_type_error(raw) == raw.kind # "num"

Raise(exception) == [raised |-> exception]

\* A pool row whose score holds the raw value, and the row a numeric raw
\* score stands for.
RawRow(pool, raw) == [pool EXCEPT !.score = raw]
numeric_row(raw_pool) == [raw_pool EXCEPT !.score = raw_pool.score.val]
numeric_rows(raw_list) == [i \in 1..Len(raw_list) |-> numeric_row(raw_list[i])]

\* Line 162: `score < self.min_score` on the value of pool_data.get('score', 0).
raw_calculate_position_size(cfg, raw_pool, override_pct) ==
    IF raises_type_error(raw_pool.score) THEN Raise("TypeError")
    ELSE calculate_position_size(cfg, numeric_row(raw_pool), override_pct)

\* Line 268: `score >= self.min_score` for each pool of the loop in turn.
some_score_raises(raw_list) ==
    \E i \in 1..Len(raw_list) : raises_type_error(raw_list[i].score)

raw_check_market_conditions(cfg, raw_list) ==
    IF some_score_raises(raw_list) THEN Raise("TypeError")
    ELSE check_market_conditions(cfg, numeric_rows(raw_list))

\* Line 327: the market check comes first.
raw_calculate_portfolio_allocation(cfg, raw_list) ==
    IF some_score_raises(raw_list) THEN Raise("TypeError")
    ELSE calculate_portfolio_allocation(cfg, numeric_rows(raw_list))

\* Lines 383 and 386: min(value, ...).
raw_sync_position_values(cfg, raw_value, value_type) ==
    IF raises_type_error(raw_value) THEN Raise("TypeError")
    ELSE sync_position_values(cfg, raw_value.val, value_type)

\* Line 393: `position_size <= 0`; line 396: `current_pnl / position_size`,
\* reached only for a positive position_size.
raw_validate_stop_loss(cfg, raw_pnl, raw_size) ==
    IF raises_type_error(raw_size) THEN Raise("TypeError")
    ELSE IF raw_size.val > 0 /\ raises_type_error(raw_pnl) THEN Raise("TypeError")
    ELSE validate_stop_loss(cfg, raw_pnl.val, raw_size.val)

RawScores == {Num(80), Num(0), NoneValue, TextValue}
RawPoolSet == {RawRow(p, r) : p \in {PoolA, PoolB}, r \in RawScores}
RawPoolLists == UNION {[1..n -> RawPoolSet] : n \in 0..MaxRawPools}
RawValues == {Num(1500), Num(-15000), Num(0), NoneValue, TextValue}
RawSizes == {Num(100000), Num(0), NoneValue, TextValue}

InitMalformed ==
    /\ config \in Configs
    /\ pools \in RawPoolLists
    /\ call = NoCall
    /\ ret = None
    /\ WorkerStart

RawCalculatePositionSize ==
    \E i \in 1..Len(pools) :
        /\ call' = [op |-> "calculate_position_size", index |-> i, override_pct |-> None]
        /\ ret' = Some(raw_calculate_position_size(config, pools[i], None))
        /\ UNCHANGED <<config, pools, worker_vars>>

RawCheckMarketConditions ==
    /\ call' = [op |-> "check_market_conditions", index |-> 0, override_pct |-> None]
    /\ ret' = Some(raw_check_market_conditions(config, pools))
    /\ UNCHANGED <<config, pools, worker_vars>>

RawCalculatePortfolioAllocation ==
    /\ call' = [op |-> "calculate_portfolio_allocation", index |-> 0, override_pct |-> None]
    /\ ret' = Some(raw_calculate_portfolio_allocation(config, pools))
    /\ UNCHANGED <<config, pools, worker_vars>>

RawSyncPositionValues ==
    \E v \in RawValues, t \in {"pct", "usdt"} :
        /\ call' = [op |-> "sync_position_values", value |-> v, value_type |-> t]
        /\ ret' = Some(raw_sync_position_values(config, v, t))
        /\ UNCHANGED <<config, pools, worker_vars>>

RawValidateStopLoss ==
    \E pnl \in RawValues, size \in RawSizes :
        /\ call' = [op |-> "validate_stop_loss", current_pnl |-> pnl,
                    position_size |-> size]
        /\ ret' = Some(raw_validate_stop_loss(config, pnl, size))
        /\ UNCHANGED <<config, pools, worker_vars>>

NextMalformed ==
    \/ RawCalculatePositionSize
    \/ RawCheckMarketConditions
    \/ RawCalculatePortfolioAllocation
    \/ RawSyncPositionValues
    \/ RawValidateStopLoss

SpecMalformed == InitMalformed /\ [][NextMalformed]_vars

----------------------------------------------------------------------------
(* The analyzer on one pool snapshot *)

Prices == {None, Some(-200), Some(0), Some(1), Some(250), Some(5000)}
Volatilities ==
    {None, Some(-50), Some(0), Some(5), Some(100), Some(150), Some(151), Some(400),
     Some(1200), Some(2000)}
Tvls == {None, Some(-1), Some(6000000)}
Volumes == {Some(0), Some(2000000)}
FeeAprs == {Some(-5), Some(101)}
Ils == {None, Some(10)}
Spreads ==
    {-1000, 0, 1, 500, 1500, 3000, 8000, 15001, 16000, 30000, 30001, 400000}

\* A row of the pools table as the analyzer reads it.
Snapshot(price, volatility, tvl, volume, fee_apr, il) ==
    [current_price |-> price, volatility |-> volatility, tvl_usd |-> tvl,
     volume_24h |-> volume, fee_apr |-> fee_apr, il_7d |-> il]

Snapshots ==
    { Snapshot(p, v, t, vol, f, il) :
        p \in Prices, v \in Volatilities, t \in Tvls, vol \in Volumes,
        f \in FeeAprs, il \in Ils }

InitAnalyzer ==
    /\ config = Cfg(1000000, "conservador", 3, 30000, 60, 20)
    /\ pools \in { <<snapshot>> : snapshot \in Snapshots }
    /\ call = NoCall
    /\ ret = None
    /\ WorkerStart

analysis_of(pool, ranges, simulations) ==
    [ranges |-> ranges, simulations |-> simulations,
     score |-> _calculate_institutional_score(pool, simulations)]

simulated_analysis(pool, ranges) ==
    analysis_of(pool, ranges, simulated_time_in_range(pool, ranges))

\* analyze_pool on the stored snapshot: ranges, simulations, score.
AnalyzePool ==
    /\ call' = [op |-> "analyze_pool", index |-> 1]
    /\ ret' = Some(simulated_analysis(pools[1], _generate_ranges(pools[1])))
    /\ UNCHANGED <<config, pools, worker_vars>>

\* _estimate_time_in_range with the snapshot's volatility, as
\* _calculate_period_returns reads it, and any spread.
EstimateTimeInRange ==
    \E spread \in Spreads :
        /\ call' = [op |-> "_estimate_time_in_range",
                    volatility |-> to_float(pools[1].volatility, 100),
                    spread |-> spread]
        /\ ret' = Some(_estimate_time_in_range(to_float(pools[1].volatility, 100), spread))
        /\ UNCHANGED <<config, pools, worker_vars>>

NextAnalyzer ==
    \/ AnalyzePool
    \/ EstimateTimeInRange

SpecAnalyzer == InitAnalyzer /\ [][NextAnalyzer]_vars

----------------------------------------------------------------------------
(* The scanner on the outcomes of its data sources *)

\* An entry of CUSTOM_POOLS in the format _load_custom_pools documents
\* (address, pair, tvl, volume, fee): none of the keys the filter reads.
CustomDocumented == ScanPool("0xcustom", None, None, None, None, None, None)

\* An entry of CUSTOM_POOLS with the keys of a pool dict.
CustomFull ==
    ScanPool("0xfull", Some("WETH"), Some("USDC"), Some(30), Some(100000), Some(50000),
             Some(1500000))

GraphPool(i) ==
    ScanPool("0xgraph" \o ToString(i), Some("WETH"), Some("USDC"), Some(5),
             Some(1000000), Some(100000), Some(500000))

\* GeckoTerminal rows: the second has no institutional token, the third a
\* TVL below the minimum.
GeckoPool(i) ==
    ScanPool("0xgecko" \o ToString(i),
             IF i = 2 THEN Some("FOO") ELSE Some("ARB"),
             IF i = 2 THEN Some("BAR") ELSE Some("weth"),
             Some(30),
             IF i = 3 THEN Some(10) ELSE Some(600000),
             Some(400000), Some(12000000))

\* A row whose base_token_symbol is a JSON null.
GeckoNullSymbol == [GeckoPool(1) EXCEPT !.token0_symbol = Some(JsonNull)]

DexPool(i) ==
    ScanPool("0xdex" \o ToString(i), Some("GMX"), Some("USDC"), Some(30),
             Some(60000), Some(5000), Some(150000))

CustomLists == {<<>>, <<CustomDocumented>>, <<CustomFull>>}
\* The subgraph's page: its second row is the first known pool.
GraphPage ==
    [i \in 1..MaxGraphPools |->
        IF i = 2 THEN known_pool(KNOWN_POOLS[1]) ELSE GraphPool(i)]

\* GeckoTerminal's page: its first row is a pool the subgraph also lists.
GeckoPage ==
    [i \in 1..MaxGeckoPools |-> IF i = 1 THEN GraphPool(1) ELSE GeckoPool(i)]

GraphFetches == {FetchRaises, Fetched(<<>>), Fetched(GraphPage)}
GeckoFetches ==
    {FetchRaises, Fetched(<<>>), Fetched(GeckoPage), Fetched(<<GeckoNullSymbol>>)}
DexFetches == {FetchRaises, Fetched(<<>>), Fetched(<<DexPool(1), DexPool(2)>>)}

InitScan ==
    /\ config = Cfg(1000000, "conservador", 3, 30000, 60, 20)
    /\ pools = <<>>
    /\ call = NoCall
    /\ ret = None
    /\ WorkerStart

\* Lines 618-651: nothing is written when the database raises, and nothing
\* is saved on the fallback path (306-311).
saved(table, result, db_up) ==
    IF db_up /\ ~result.fallback THEN _save_to_database(table, result.pools) ELSE table

\* run_scanner: scan_pools(include_custom=True, min_pools=50) on what the
\* environment and the three sources deliver.
scans_so_far == IF call.op = "scan_pools" THEN call.run ELSE 0

RunScanner ==
    /\ scans_so_far < MaxScans
    /\ \E custom_pools \in CustomLists, graph \in GraphFetches, gecko \in GeckoFetches,
          dex \in DexFetches, db_up \in BOOLEAN :
          /\ call' = [op |-> "scan_pools", custom_pools |-> custom_pools,
                      graph |-> graph, gecko |-> gecko, dex |-> dex, db_up |-> db_up,
                      run |-> scans_so_far + 1]
          /\ ret' = Some(scan_pools(custom_pools, graph, gecko, dex, TRUE, 50))
          /\ pools' = saved(pools, ret'[1], db_up)
          /\ UNCHANGED <<config, worker_vars>>

NextScan == RunScanner

SpecScan == InitScan /\ [][NextScan]_vars

----------------------------------------------------------------------------
(* The worker on the pools table *)

\* A stored row with a score between the query's 70 and the alert's 75.
PoolG ==
    [Row("address", "0xg", 72) EXCEPT
        !.simulation_7d = Some(Dict(Some(350), Some(300), Some(500), None))]

WorkerPoolSet == {PoolA, PoolB, PoolG}

WorkerConfigs ==
    { Cfg(1000000, "conservador", 3, 30000, 60, 20),
      Cfg(1000000, "agressivo", 3, 100000, 0, 10) }

InitWorker ==
    /\ config \in WorkerConfigs
    /\ pools \in UNION {[1..n -> WorkerPoolSet] : n \in 0..MaxWorkerPools}
    /\ call = NoCall
    /\ ret = None
    /\ WorkerStart

RoomForAlerts == Len(telegram) < MaxTelegrams /\ Len(alerts) < MaxAlertRows

\* The scheduled job check_opportunities, on what the database and the
\* Telegram API do during the run.
CheckOpportunities ==
    /\ RoomForAlerts
    /\ \E select_ok \in BOOLEAN, telegram_up \in BOOLEAN, insert_ok \in BOOLEAN :
          /\ call' = [op |-> "check_opportunities", select_ok |-> select_ok,
                      telegram_up |-> telegram_up, insert_ok |-> insert_ok]
          /\ alert_history' =
                 check_opportunities(
                     [alert_history |-> alert_history, telegram |-> telegram,
                      alerts |-> alerts, raised |-> FALSE],
                     pools, now, select_ok, telegram_up, insert_ok).alert_history
          /\ telegram' =
                 check_opportunities(
                     [alert_history |-> alert_history, telegram |-> telegram,
                      alerts |-> alerts, raised |-> FALSE],
                     pools, now, select_ok, telegram_up, insert_ok).telegram
          /\ alerts' =
                 check_opportunities(
                     [alert_history |-> alert_history, telegram |-> telegram,
                      alerts |-> alerts, raised |-> FALSE],
                     pools, now, select_ok, telegram_up, insert_ok).alerts
          /\ ret' = None
          /\ UNCHANGED <<config, pools, now>>

\* The scheduled job check_market_conditions (worker.py 168-206): the
\* engine's verdict is sent and then stored.
WorkerCheckMarket ==
    /\ RoomForAlerts
    /\ \E telegram_up \in BOOLEAN, insert_ok \in BOOLEAN :
          /\ call' = [op |-> "worker.check_market_conditions", select_ok |-> TRUE,
                      telegram_up |-> telegram_up, insert_ok |-> insert_ok]
          /\ ret' = Some(worker_market_check(config, pools))
          /\ telegram' = send_message(telegram, send_market_alert(ret'[1], now), telegram_up)
          /\ alerts' = IF insert_ok THEN Append(alerts, market_row(ret'[1], now)) ELSE alerts
          /\ UNCHANGED <<config, pools, now, alert_history>>

\* An hour passes between two runs.
Tick ==
    /\ now < MaxHours
    /\ now' = now + 1
    /\ UNCHANGED <<config, pools, call, ret, alert_history, telegram, alerts>>

NextWorker ==
    \/ CheckOpportunities
    \/ WorkerCheckMarket
    \/ Tick

SpecWorker == InitWorker /\ [][NextWorker]_vars

----------------------------------------------------------------------------
(* Views of the last call *)

Sized == call.op = "calculate_position_size"
Gated == call.op = "check_market_conditions"
Allocated == call.op = "calculate_portfolio_allocation"
Result == ret[1]
ArgPool == pools[call.index]

----------------------------------------------------------------------------
(* Vocabulary of the properties *)

\* The figures the market gate reads for a pool, stated from the extracted
\* dict: its IL percent and its net return (net after gas when present).
ExtractedIL(pool) ==
    LET sim == _extract_simulation_7d(pool)
    IN  IF sim.il_percentage # None THEN Abs(sim.il_percentage[1])
        ELSE IF sim.impermanent_loss # None THEN Abs(sim.impermanent_loss[1])
        ELSE 0

ExtractedNet(pool) ==
    LET sim == _extract_simulation_7d(pool)
    IN  IF sim.net_after_gas # None THEN sim.net_after_gas[1]
        ELSE IF sim.net_return # None THEN sim.net_return[1]
        ELSE 0

HasSimulation(pool) == _extract_simulation_7d(pool) # EmptyDict

\* "Good" as the specification defines it.
IsGood(pool) ==
    /\ HasSimulation(pool)
    /\ pool.score >= config.min_score
    /\ ExtractedIL(pool) <= RISK_PROFILES[config.perfil_risco].max_il_tolerance
    /\ ExtractedNet(pool) > 0

GoodInputs == SelectSeq(pools, LAMBDA p : IsGood(p))

RECURSIVE SumScores(_)
SumScores(s) == IF s = <<>> THEN 0 ELSE Head(s).score + SumScores(Tail(s))

RECURSIVE SumAllocated(_)
SumAllocated(s) == IF s = <<>> THEN 0 ELSE Head(s).allocation_usdt + SumAllocated(Tail(s))

\* An entry of good_pools or of allocations describes the input row p.
Describes(entry, p) ==
    /\ entry.pool_address = _get_pool_address(p)
    /\ entry.score = p.score

PassesScoreGate == Sized /\ ArgPool.score >= config.min_score

----------------------------------------------------------------------------
(* C1 *)

\* C1: calculate_position_size, with or without override_pct, never returns
\* a size_usdt above capital_total * max_position_size / 100 (size_usdt is a
\* whole number of cents, so the bound is compared after flooring it).
C1_SizeWithinConfiguredCap ==
    Sized => Result.size_usdt <= FloorPct(config.capital_total, config.max_position_size)

\* The configured cap is the binding limit of a sized position.
C1_Witness ==
    /\ PassesScoreGate
    /\ call.override_pct # None
    /\ call.override_pct[1] > config.max_position_size
    /\ config.max_position_size < RISK_PROFILES[config.perfil_risco].max_position_pct
    /\ Result.size_usdt = FloorPct(config.capital_total, config.max_position_size)
    /\ Result.size_usdt > 0

----------------------------------------------------------------------------
(* C2 *)

\* C2: every allocation of calculate_portfolio_allocation is the size of a
\* viable position decision for an input pool and fits the capital left by
\* the allocations before it; the remaining capital is never negative and
\* allocations plus remaining capital add up to capital_total.
C2_AllocationAccounting ==
    Allocated =>
        LET allocs == Result.allocations IN
        /\ ~Result.can_operate => allocs = <<>>
        /\ \A k \in 1..Len(allocs) :
              /\ allocs[k].allocation_usdt
                    <= config.capital_total - SumAllocated(SubSeq(allocs, 1, k - 1))
              /\ \E i \in 1..Len(pools) :
                    LET position == calculate_position_size(config, pools[i], None)
                    IN  /\ position.can_operate
                        /\ position.size_usdt = allocs[k].allocation_usdt
        /\ Result.remaining_capital # None =>
              /\ Result.remaining_capital[1] >= 0
              /\ SumAllocated(allocs) + Result.remaining_capital[1] = config.capital_total

\* Two positions were allocated and a third viable one was turned down
\* because it no longer fitted.
C2_Witness ==
    /\ Allocated
    /\ Len(pools) = 3
    /\ \A i \in 1..3 : /\ IsGood(pools[i])
                       /\ calculate_position_size(config, pools[i], None).can_operate
    /\ config.max_positions >= 3
    /\ Len(Result.allocations) = 2
    /\ Result.remaining_capital # None
    /\ Result.remaining_capital[1] > 0

----------------------------------------------------------------------------
(* C3 *)

\* C3: the market_score returned by check_market_conditions is the mean of
\* score over all input pools (to the one decimal it is reported with).
C3_MarketScoreIsMeanOfAll ==
    (Gated /\ pools # <<>>) =>
        Result.market_score = Round1(SumScores(pools), Len(pools))

----------------------------------------------------------------------------
(* C4 *)

----------------------------------------------------------------------------
(* C5 *)

----------------------------------------------------------------------------
(* C6 *)

\* C6: for a pool whose score is below config.min_score the decision is
\* can_operate = false with size_pct = 0 and size_usdt = 0, whatever its
\* simulation data, apr_7d or the override_pct.
C6_BelowMinScoreRejected ==
    (Sized /\ ArgPool.score < config.min_score) =>
        /\ ~Result.can_operate
        /\ Result.size_pct = 0
        /\ Result.size_usdt = 0

\* A pool below the minimum that would otherwise be sized and viable.
C6_Witness ==
    /\ Sized
    /\ ArgPool.score < config.min_score
    /\ call.override_pct # None
    /\ call.override_pct[1] > 0
    /\ HasSimulation(ArgPool)
    /\ ExtractedNet(ArgPool) > 0
    /\ ~Result.can_operate
    /\ Result.size_usdt = 0

----------------------------------------------------------------------------
(* C7 *)

\* The estimated 7-day return in USD of the specification's gas check: the
\* extracted net percent applied to the position size; the apr_7d pro rata
\* of 7/365 for a pool without simulation data.
SpecifiedEstimate(size_usdt, pool) ==
    IF HasSimulation(pool) THEN Usd(size_usdt * ExtractedNet(pool), 1000000)
    ELSE IF pool.apr_7d # None THEN Usd(size_usdt * pool.apr_7d[1] * 7, 3650000)
    ELSE Usd(0, 1)

\* GAS_COST_USD * gas_multiplier (tenths), as a fraction in lowest terms
RequiredReturn == Usd((GAS_COST_USD * config.gas_multiplier) \div 5, 2)

\* C7: for a pool that passes the score gate, can_operate is false exactly
\* when the estimated 7-day return on the proposed size_usdt is below
\* GAS_COST_USD * gas_multiplier, and the decision then still reports the
\* computed, non-zero size_pct and size_usdt.
C7_GasViabilityDecides ==
    PassesScoreGate =>
        /\ ~Result.can_operate <=>
              UsdLess(SpecifiedEstimate(Result.size_usdt, ArgPool), RequiredReturn)
        /\ ~Result.can_operate => (Result.size_pct # 0 /\ Result.size_usdt # 0)

----------------------------------------------------------------------------
(* C8 *)

Clamp(x, lo, hi) == IF x < lo THEN lo ELSE IF x > hi THEN hi ELSE x

\* 10 + (max_position_pct - 10) * clamp((score - 60) / 40, 0, 1)
SpecifiedBasePct(score) ==
    10000 + ((RISK_PROFILES[config.perfil_risco].max_position_pct - 10000)
                * Clamp(score - 60, 0, 40)) \div 40

Min3(a, b, c) == Min2(Min2(a, b), c)

\* C8: without an override, a pool that passes the score gate gets
\* size_pct = min(10 + (max_position_pct - 10) * clamp((score - 60)/40, 0, 1),
\* config.max_position_size, profile.max_position_pct), for every score and
\* every min_score.
C8_InterpolatedSizePct ==
    (PassesScoreGate /\ call.override_pct = None) =>
        Result.size_pct =
            Min3(SpecifiedBasePct(ArgPool.score), config.max_position_size,
                 RISK_PROFILES[config.perfil_risco].max_position_pct)

----------------------------------------------------------------------------
(* C9 *)

\* C9: whenever an override_pct is supplied (0 included), the position is
\* sized from the override clamped to config.max_position_size and the
\* profile cap, not from the score.
C9_OverrideSizesPosition ==
    (PassesScoreGate /\ call.override_pct # None) =>
        LET pct == Min3(call.override_pct[1], config.max_position_size,
                        RISK_PROFILES[config.perfil_risco].max_position_pct)
        IN  /\ Result.size_usdt = QuantizeDown(config.capital_total, pct)
            /\ Result.size_pct = Round2(pct)

----------------------------------------------------------------------------
(* C10 *)

\* C10: the returned good_pools has at most max_positions entries and is the
\* prefix, in input order, of the good input pools; total_opportunities is
\* the number of good pools before the truncation.
C10_GoodPoolsPrefixInInputOrder ==
    Gated =>
        /\ Len(Result.good_pools) <= config.max_positions
        /\ Len(Result.good_pools) = Min2(Len(GoodInputs), config.max_positions)
        /\ \A k \in 1..Len(Result.good_pools) :
              Describes(Result.good_pools[k], GoodInputs[k])
        /\ Result.total_opportunities # None =>
              Result.total_opportunities[1] = Len(GoodInputs)

\* The list was cut, and the entries kept are sorted neither by score nor by
\* return.
C10_Witness ==
    /\ Gated
    /\ Result.total_opportunities # None
    /\ Result.total_opportunities[1] > Len(Result.good_pools)
    /\ \E k \in 1..(Len(Result.good_pools) - 1) :
          /\ Result.good_pools[k].score < Result.good_pools[k + 1].score
          /\ Result.good_pools[k].net_return < Result.good_pools[k + 1].net_return

----------------------------------------------------------------------------
(* C11 *)

\* C11: check_market_conditions on an empty pool list returns
\* can_operate = false with an empty good_pools list.
C11_EmptyListCannotOperate ==
    (Gated /\ pools = <<>>) =>
        /\ ~Result.can_operate
        /\ Result.good_pools = <<>>

\* The market was checked on an empty list.
C11_Witness ==
    /\ Gated
    /\ pools = <<>>
    /\ Result.reason.kind = "Nenhuma pool disponivel para analise"

----------------------------------------------------------------------------
(* C12 *)

\* C12: when the market gate fails, calculate_portfolio_allocation returns
\* can_operate = false, the reason and recommendation of
\* check_market_conditions unchanged, an empty allocations list, and none
\* of the figures that the sizing loop produces.
C12_GateFailureReturnsMarketReason ==
    (Allocated /\ ~check_market_conditions(config, pools).can_operate) =>
        /\ ~Result.can_operate
        /\ Result.reason = check_market_conditions(config, pools).reason
        /\ Result.allocations = <<>>
        /\ Result.total_allocated_usdt = None
        /\ Result.remaining_capital = None

\* The gate failed on a list that holds a good pool whose position would
\* have been viable.
C12_Witness ==
    /\ Allocated
    /\ ~Result.can_operate
    /\ Result.reason.kind = "Mercado desfavoravel (score medio)"
    /\ \E i \in 1..Len(pools) :
          /\ IsGood(pools[i])
          /\ calculate_position_size(config, pools[i], None).can_operate

----------------------------------------------------------------------------
(* C13 *)

Synced == call.op = "sync_position_values"
Checked == call.op = "validate_stop_loss"

Raised == ret # None /\ "raised" \in DOMAIN Result

\* The row with a score that is not a number replaced by 0.
ScoreCoercedToZero(raw_pool) ==
    IF raw_pool.score.kind = "num" THEN numeric_row(raw_pool)
    ELSE [raw_pool EXCEPT !.score = 0]

\* C13: no operation of the engine raises when a numeric input (a pool's
\* score, the value to convert, the pnl or the position size) is None or
\* not a number, and calculate_position_size then decides as for a score
\* of 0.
C13_MalformedNumbersNeverRaise ==
    /\ ~Raised
    /\ (ret # None /\ call.op = "calculate_position_size") =>
          Result = calculate_position_size(config, ScoreCoercedToZero(pools[call.index]),
                                           call.override_pct)

----------------------------------------------------------------------------
(* C14 *)

\* C14: for every numeric value, negative ones included, the pair returned
\* by sync_position_values has 0 <= pct <= 100, 0 <= usdt <= capital_total
\* and usdt = capital_total * pct / 100 (to the cent).
C14_SyncedPairWithinRange ==
    Synced =>
        /\ 0 <= Result.pct /\ Result.pct <= 10000
        /\ 0 <= Result.usdt /\ Result.usdt <= config.capital_total
        /\ Result.usdt = usdt_of_pct(config.capital_total, Result.pct)

----------------------------------------------------------------------------
(* C15 *)

----------------------------------------------------------------------------
(* C16 *)

Analyzed == call.op = "analyze_pool"
Estimated == call.op = "_estimate_time_in_range"
Snap == pools[1]
PriceOf(pool) == to_float(pool.current_price, 100)

\* C16: for every pool snapshot, one with current_price 0 or negative
\* included, every range produced by _generate_ranges has
\* min_price < max_price.
C16_RangesOrdered ==
    Analyzed =>
        \A strategy \in DOMAIN Result.ranges :
            Result.ranges[strategy].min_price < Result.ranges[strategy].max_price

----------------------------------------------------------------------------
(* C17 *)

\* C17: for every snapshot with current_price > 0 and every volatility,
\* each of the three ranges has min_price < current_price < max_price.
C17_PriceInsideRange ==
    (Analyzed /\ PriceOf(Snap) > 0) =>
        \A strategy \in DOMAIN Result.ranges :
            /\ Result.ranges[strategy].min_price < PriceOf(Snap) * 100000
            /\ PriceOf(Snap) * 100000 < Result.ranges[strategy].max_price

\* A positive stored price with a volatility above the widening threshold,
\* three ranges produced around the price.
C17_Witness ==
    /\ Analyzed
    /\ Snap.current_price # None /\ Snap.current_price[1] > 0
    /\ Snap.volatility # None /\ Snap.volatility[1] > 150
    /\ DOMAIN Result.ranges = {"defensive", "optimized", "aggressive"}
    /\ Result.ranges["aggressive"].min_price < PriceOf(Snap) * 100000

----------------------------------------------------------------------------
(* C18 *)

\* C18: for every snapshot and every volatility, below or above the
\* widening threshold of 15, defensive.spread_percent >=
\* optimized.spread_percent >= aggressive.spread_percent.
C18_SpreadsDescend ==
    Analyzed =>
        /\ Result.ranges["defensive"].spread_percent
              >= Result.ranges["optimized"].spread_percent
        /\ Result.ranges["optimized"].spread_percent
              >= Result.ranges["aggressive"].spread_percent

\* Widened ranges (volatility above 15) whose spreads still descend.
C18_Witness ==
    /\ Analyzed
    /\ Snap.volatility # None /\ Snap.volatility[1] > 150
    /\ Result.ranges["defensive"].spread_percent > 30000
    /\ Result.ranges["defensive"].spread_percent
          > Result.ranges["optimized"].spread_percent
    /\ Result.ranges["optimized"].spread_percent
          > Result.ranges["aggressive"].spread_percent

----------------------------------------------------------------------------
(* C19 *)

\* The step function of ratio = spread / max(volatility, 1), in hundredths:
\* ratio > r is spread > r * 100 * max(volatility, 10) in the model's units.
StepOfRatio(volatility, spread) ==
    LET m == IF volatility > 10 THEN volatility ELSE 10
    IN  IF spread > 300 * m THEN 95
        ELSE IF spread > 200 * m THEN 85
        ELSE IF 2 * spread > 300 * m THEN 75
        ELSE IF spread > 100 * m THEN 65
        ELSE IF 2 * spread > 100 * m THEN 50
        ELSE 35

NumericVolatilities == { v[1] : v \in Volatilities \ {None} }

\* Non-decreasing in spread for the call's volatility, non-increasing in
\* volatility for the call's spread.
MonotoneAtCall ==
    /\ \A spread \in Spreads :
          spread >= call.spread =>
              _estimate_time_in_range(call.volatility, spread) >= Result
    /\ \A volatility \in NumericVolatilities :
          volatility >= call.volatility =>
              _estimate_time_in_range(volatility, call.spread) <= Result

\* The reported time_in_range of every simulation lies in [0, 100].
ReportedInRange ==
    Analyzed =>
        \A strategy \in DOMAIN Result.simulations :
            /\ 0 <= Result.simulations[strategy]
            /\ Result.simulations[strategy] <= 1000

----------------------------------------------------------------------------
(* C20 *)

\* C20: the institutional score is an integer in [0, 100] for every numeric
\* input, including zero, negative or missing TVL, volume, fee APR, IL and
\* volatility.
C20_ScoreWithinBounds ==
    Analyzed => (Result.score \in Int /\ 0 <= Result.score /\ Result.score <= 100)

\* Negative TVL and fee APR, missing IL and volatility: every bucket score
\* is computed and the score is an integer within the bounds.
C20_Witness ==
    /\ Analyzed
    /\ Snap.tvl_usd = Some(-1)
    /\ Snap.fee_apr = Some(-5)
    /\ Snap.il_7d = None
    /\ Snap.volatility = None
    /\ Result.score \in 0..100

----------------------------------------------------------------------------
(* C21 *)

\* The good_pools list the allocation iterates over.
GoodPools == check_market_conditions(config, pools).good_pools

\* Strictly increasing maps from positions of one list to positions of
\* another: the embeddings of an order-preserving subsequence.
IncreasingMaps(n, m) ==
    {f \in [1..n -> 1..m] : \A a, b \in 1..n : a < b => f[a] < f[b]}

\* The position decision for the input row a good_pools entry describes.
PositionFor(entry) ==
    calculate_position_size(config,
        CHOOSE p \in {pools[i] : i \in 1..Len(pools)} : Describes(entry, p), None)

\* The capital still free when the loop reaches entry i, given the
\* embedding f of the allocations.
FreeAt(f, i) ==
    config.capital_total
        - SumAllocated(SubSeq(Result.allocations, 1,
              Cardinality({k \in DOMAIN f : f[k] < i})))

\* C21: calculate_portfolio_allocation visits every entry of good_pools up
\* to the end of the list without an early break: the allocations are an
\* order-preserving subsequence of good_pools with at most max_positions
\* entries, and every entry left out is one whose position is not viable or
\* does not fit the capital free at that point, so a later entry that fits
\* is allocated even after an earlier one was skipped.
C21_NoEarlyBreak ==
    (Allocated /\ Result.can_operate) =>
        /\ Len(Result.allocations) <= config.max_positions
        /\ \E f \in IncreasingMaps(Len(Result.allocations), Len(GoodPools)) :
              /\ \A k \in DOMAIN f :
                    /\ Result.allocations[k].pool_address = GoodPools[f[k]].pool_address
                    /\ Result.allocations[k].pair = GoodPools[f[k]].pair
                    /\ Result.allocations[k].score = GoodPools[f[k]].score
                    /\ Result.allocations[k].expected_return = GoodPools[f[k]].net_return
              /\ \A i \in 1..Len(GoodPools) :
                    (\A k \in DOMAIN f : f[k] # i) =>
                        \/ ~PositionFor(GoodPools[i]).can_operate
                        \/ PositionFor(GoodPools[i]).size_usdt > FreeAt(f, i)

\* The third pool did not fit the capital left by the first two and was
\* skipped; the fourth, smaller one was allocated after it.
C21_Witness ==
    /\ Allocated /\ Result.can_operate
    /\ Len(GoodPools) = 4
    /\ Len(Result.allocations) = 3
    /\ PositionFor(GoodPools[3]).can_operate
    /\ PositionFor(GoodPools[3]).size_usdt
          > config.capital_total - SumAllocated(SubSeq(Result.allocations, 1, 2))
    /\ Result.allocations[3].pool_address = GoodPools[4].pool_address
    /\ Result.allocations[3].pool_address # GoodPools[3].pool_address

----------------------------------------------------------------------------
(* C22 *)

\* C22: the apr_7d estimate is used only when no 7-day simulation estimate
\* is available: a pool that has a simulation with a non-positive
\* net-after-gas percent is not made viable by its apr_7d field.
C22_AprOnlyWithoutSimulation ==
    (/\ PassesScoreGate
     /\ HasSimulation(ArgPool)
     /\ ExtractedNet(ArgPool) <= 0) => ~Result.can_operate

----------------------------------------------------------------------------
(* C23 *)

Scanned == call.op = "scan_pools"

\* The addresses scan_pools returned with a score, i.e. analysed.
ReturnedAnalysed ==
    {Result.pools[i].address :
        i \in {j \in 1..Len(Result.pools) : Result.pools[j].score # None}}

SomeFetchRaised == call.graph.raised \/ call.gecko.raised \/ call.dex.raised

\* The addresses delivered by the custom list and by the sources that did
\* not raise.
Delivered ==
    addresses_of(call.custom_pools) \cup addresses_of(call.graph.pools)
        \cup addresses_of(call.gecko.pools) \cup addresses_of(call.dex.pools)

KnownAddresses == {KNOWN_POOLS[i].address : i \in 1..Len(KNOWN_POOLS)}

\* C23: when one of the The Graph, GeckoTerminal or DexScreener fetches
\* raises, the pools obtained from the other sources and from the custom
\* list are still collected, analysed and returned by scan_pools, and a
\* shortfall below the minimum is filled from the known-pools list.
C23_SourceFailuresIsolated ==
    (Scanned /\ SomeFetchRaised) =>
        /\ Delivered \subseteq ReturnedAnalysed
        /\ Cardinality(Delivered) < 50 =>
              ReturnedAnalysed \cap (KnownAddresses \ Delivered) # {}

----------------------------------------------------------------------------
(* C24 *)

\* C24: calculate_position_size never returns a negative size_pct or
\* size_usdt, for any pool score >= min_score, any min_score in 0..100, any
\* risk profile and any override_pct.
C24_SizeNeverNegative ==
    PassesScoreGate => (Result.size_pct >= 0 /\ Result.size_usdt >= 0)

----------------------------------------------------------------------------
(* C25 *)

ApiSized == call.op = "api_position_size"

\* The same amount of USD.
SameUsd(a, b) ==
    IF a.num = 0 \/ b.num = 0 \/ a.den = b.den THEN a.num = b.num
    ELSE a.num * b.den = b.num * a.den

\* What the engine returns for the stored row itself.
DirectPosition == calculate_position_size(config, ArgPool, call.override_pct)

\* C25: for a pool stored with a simulations_data blob, the endpoint, which
\* attaches simulation_7d before it calls the engine, reaches the same
\* can_operate decision and the same estimated return as the engine applied
\* to the row with its raw blob.
C25_ApiPathAgreesWithEngine ==
    (ApiSized /\ ArgPool.simulations_data # None) =>
        /\ Result.can_operate = DirectPosition.can_operate
        /\ SameUsd(estimated_return_usd(Result.size_usdt, attach_simulation_7d(ArgPool)),
                   estimated_return_usd(DirectPosition.size_usdt, ArgPool))

----------------------------------------------------------------------------
(* C26 *)

\* The allocation record is the one of the input pool at position i: the
\* pool's address, score and expected return, and the size computed for it.
RecordOf(record, i) ==
    /\ record.pool_address = good_pool_entry(pools[i]).pool_address
    /\ record.score = pools[i].score
    /\ record.expected_return = good_pool_entry(pools[i]).net_return
    /\ record.allocation_pct = calculate_position_size(config, pools[i], None).size_pct
    /\ record.allocation_usdt = calculate_position_size(config, pools[i], None).size_usdt

\* C26: every allocation record's allocation_pct and allocation_usdt are
\* computed from the same input pool whose score and expected_return appear
\* in the record, also when two pools share an address or carry none.
C26_AllocationFromItsOwnPool ==
    Allocated =>
        \A k \in 1..Len(Result.allocations) :
            \E i \in 1..Len(pools) : RecordOf(Result.allocations[k], i)

----------------------------------------------------------------------------
(* C27 *)

\* C27: whenever calculate_portfolio_allocation reports can_operate = true,
\* its allocations list holds at least one allocation.
C27_OperableAllocationNotEmpty ==
    (Allocated /\ Result.can_operate) => Result.allocations # <<>>

----------------------------------------------------------------------------
(* C28 *)

\* C28: for a non-empty pool list in which no pool qualifies as good,
\* check_market_conditions reports the no-qualifying-pool reason, not the
\* unfavourable-market reason.
C28_NoGoodPoolReason ==
    (Gated /\ pools # <<>> /\ GoodInputs = <<>>) =>
        Result.reason = Reason("Nenhuma pool atende aos criterios de risco", <<>>)

----------------------------------------------------------------------------
(* C29 *)

\* The positions of the opportunity alerts that reached the chat.
OpportunityAlerts == {i \in 1..Len(telegram) : telegram[i].type = "OPPORTUNITY"}

\* C29: across any sequence of check_opportunities runs, also with failing
\* Telegram sends or alerts-table inserts, no two opportunity alerts are sent
\* for the same pool address less than 6 hours apart.
C29_OpportunityAlertsSixHoursApart ==
    \A i \in OpportunityAlerts, j \in OpportunityAlerts :
        (i < j /\ telegram[i].pool_address = telegram[j].pool_address) =>
            telegram[j].at - telegram[i].at >= 6

----------------------------------------------------------------------------
(* C30 *)

MarketChecked == call.op = "worker.check_market_conditions"

\* C30: whenever the engine's check_market_conditions returns
\* can_operate = true, the market alert the worker sends is the favourable
\* one and the stored row has severity info; the unfavourable alert and
\* severity warning are produced only when can_operate = false.
C30_MarketAlertFollowsVerdict ==
    MarketChecked =>
        /\ call.telegram_up =>
               (telegram[Len(telegram)].title = "Mercado Favoravel para Operar")
                   = Result.can_operate
        /\ call.insert_ok =>
               (alerts[Len(alerts)].severity = "info") = Result.can_operate

====
